---- MODULE Spec2Model ----
(***************************************************************************)
(* A model of astrbot_plugin_trello: the Trello gateway (client.py), the   *)
(* name matcher, the reference resolvers and the session context handling  *)
(* of the plugin (main.py).                                                *)
(*                                                                         *)
(* Strings are sequences of one-character strings, so that trimming, case  *)
(* folding, substring search and the 24-hex-character ID test are computed *)
(* and not assumed.                                                        *)
(***************************************************************************)
EXTENDS Naturals, Sequences, FiniteSets

VARIABLES
    items,      \* name matcher: the item sequence handed to _match_named_item
    query,      \* name matcher: the query handed to _match_named_item
    matched,    \* name matcher: the (item, error) pair it returned
    resp,       \* gateway: the remote's answer to the HTTP request
    outcome,    \* gateway: what the client call returned or raised
    session,    \* plugin: the conversation's board_id / list_id / card_id / done_list_id
    last,       \* plugin: the last resolver call or handler invocation and its result
    http,       \* gateway: the HTTP sessions the client has held and its _session
    running     \* plugin: the handlers in flight in the conversation and their positions

vars == <<items, query, matched, resp, outcome, session, last, http, running>>

(***************************************************************************)
(* Strings                                                                 *)
(***************************************************************************)
UpperChars == <<"A","B","C","D","E","F","G","H","I","J","K","L","M",
                "N","O","P","Q","R","S","T","U","V","W","X","Y","Z">>
LowerChars == <<"a","b","c","d","e","f","g","h","i","j","k","l","m",
                "n","o","p","q","r","s","t","u","v","w","x","y","z">>
DigitChars == <<"0","1","2","3","4","5","6","7","8","9">>

\* whitespace removed by str.strip()
IsSpace(c) == c \in {" ", "\t", "\n"}

\* str.casefold() of one character (ASCII letters)
FoldChar(c) ==
    IF \E i \in 1..Len(UpperChars) : UpperChars[i] = c
    THEN LowerChars[CHOOSE i \in 1..Len(UpperChars) : UpperChars[i] = c]
    ELSE c

\* str.casefold()
Casefold(s) == [i \in 1..Len(s) |-> FoldChar(s[i])]

\* str.strip(): drop the leading and the trailing whitespace
Strip(s) ==
    LET keep == {i \in 1..Len(s) : ~IsSpace(s[i])}
    IN  IF keep = {} THEN <<>>
        ELSE LET lo == CHOOSE i \in keep : \A j \in keep : i <= j
                 hi == CHOOSE i \in keep : \A j \in keep : j <= i
             IN  SubSeq(s, lo, hi)

\* Python's `q in s` for strings
Contains(s, q) ==
    \E i \in 1..(Len(s) + 1) :
        /\ i + Len(q) - 1 <= Len(s)
        /\ SubSeq(s, i, i + Len(q) - 1) = q

\* the characters [A-Fa-f0-9]
IsHexChar(c) ==
    \/ \E i \in 1..Len(DigitChars) : DigitChars[i] = c
    \/ \E i \in 1..6 : UpperChars[i] = c \/ LowerChars[i] = c

\* the {24} of the regular expression of _looks_like_trello_id
IdLen == 24

\* re.fullmatch(r"[A-Fa-f0-9]{24}", value or "")
LooksLikeTrelloId(value) ==
    /\ Len(value) = IdLen
    /\ \A i \in 1..Len(value) : IsHexChar(value[i])

\* the first n elements of a sequence: s[:n]
Take(s, n) == SubSeq(s, 1, IF Len(s) < n THEN Len(s) ELSE n)

(***************************************************************************)
(* Name matcher: TrelloPlugin._match_named_item                            *)
(***************************************************************************)
\* exact[:5] and partial[:5]
MaxCandidates == 5

\* A JSON object of the remote API, reduced to the keys the plugin and the client
\* read.  A key that is absent, null or "" is <<>> (the code reads these keys as
\* str(x.get(k) or "")); closed is "true", "false" or "absent"; isObj is FALSE
\* for a list element that is no JSON object.
Object(id, name) ==
    [id |-> id, name |-> name, closed |-> "absent", idBoard |-> <<>>,
     idList |-> <<>>, idCard |-> <<>>, checkItems |-> <<>>, isObj |-> TRUE]

\* Python's None in the place of an item
NoItem == Object(<<>>, <<>>)
NoError == [kind |-> "none", q |-> <<>>, cands |-> <<>>]

\* f"{item.get(name_key)} ({item.get(id_key)})"
FormatCandidate(item) == item.name \o <<" ", "(">> \o item.id \o <<")">>

FormatCandidatesUncapped(sub) == [i \in 1..Len(sub) |-> FormatCandidate(sub[i])]

\* the candidates joined into "Ambiguous name: ... Matches: ...": at most five
FormatCandidates(sub) ==
    [i \in 1..Len(Take(sub, MaxCandidates)) |-> FormatCandidate(sub[i])]

AmbiguousError(q, sub) ==
    [kind |-> "ambiguous", q |-> q, cands |-> FormatCandidates(sub)]

\* str(item.get(name_key, "")).strip().casefold() == lowered
ExactTest(item, lowered) == Casefold(Strip(item.name)) = lowered

\* the test of the second phase that takes only a name that begins with the
\* query: str.startswith in the place of `in`
PartialTestPrefix(item, lowered) ==
    /\ Len(lowered) <= Len(Casefold(Strip(item.name)))
    /\ SubSeq(Casefold(Strip(item.name)), 1, Len(lowered)) = lowered

\* lowered in str(item.get(name_key, "")).strip().casefold()
PartialTest(item, lowered) == Contains(Casefold(Strip(item.name)), lowered)

ExactMatches(its, lowered) ==
    LET T(item) == ExactTest(item, lowered) IN SelectSeq(its, T)

PartialMatches(its, lowered) ==
    LET T(item) == PartialTest(item, lowered) IN SelectSeq(its, T)

MatchPartialFirst(its, qry) ==
    LET q == Strip(qry)
        lowered == Casefold(q)
        partial == PartialMatches(its, lowered)
    IN  IF q = <<>>
        THEN [item |-> NoItem, found |-> FALSE,
              err |-> [kind |-> "empty", q |-> <<>>, cands |-> <<>>]]
        ELSE IF Len(partial) = 1
        THEN [item |-> partial[1], found |-> TRUE, err |-> NoError]
        ELSE IF Len(partial) > 1
        THEN [item |-> NoItem, found |-> FALSE, err |-> AmbiguousError(q, partial)]
        ELSE [item |-> NoItem, found |-> FALSE,
              err |-> [kind |-> "notfound", q |-> q, cands |-> <<>>]]

MatchNamedItem(its, qry) ==
    LET q == Strip(qry)
        lowered == Casefold(q)
        exact == ExactMatches(its, lowered)
        partial == PartialMatches(its, lowered)
    IN  IF q = <<>>
        THEN [item |-> NoItem, found |-> FALSE,
              err |-> [kind |-> "empty", q |-> <<>>, cands |-> <<>>]]
        ELSE IF Len(exact) = 1
        THEN [item |-> exact[1], found |-> TRUE, err |-> NoError]
        ELSE IF Len(exact) > 1
        THEN [item |-> NoItem, found |-> FALSE, err |-> AmbiguousError(q, exact)]
        ELSE IF Len(partial) = 1
        THEN [item |-> partial[1], found |-> TRUE, err |-> NoError]
        ELSE IF Len(partial) > 1
        THEN [item |-> NoItem, found |-> FALSE, err |-> AmbiguousError(q, partial)]
        ELSE [item |-> NoItem, found |-> FALSE,
              err |-> [kind |-> "notfound", q |-> q, cands |-> <<>>]]

(***************************************************************************)
(* Gateway: TrelloClient (client.py)                                       *)
(***************************************************************************)
\* body[:300] of the "HTTP <status>: <body>" message
BodyLimit == 300

\* the statuses raised as TrelloAuthError
StatusUnauthorized == 401
StatusForbidden == 403

\* resp.status >= 400
StatusErrorFrom == 400

\* JSON values, as far as the client and the plugin tell them apart: a list
\* (elems), an object (obj: its own keys; cards / cardElems: its "cards" key,
\* "absent", a "list" or a "scalar"; text: the raw body of {"text": body}) or
\* a scalar (string, number, null).
JList(elems) ==
    [t |-> "list", elems |-> elems, obj |-> NoItem, cards |-> "absent",
     cardElems |-> <<>>, text |-> <<>>]
JDict(obj, cards, cardElems) ==
    [t |-> "dict", elems |-> <<>>, obj |-> obj, cards |-> cards,
     cardElems |-> cardElems, text |-> <<>>]
JScalar == [t |-> "scalar", elems |-> <<>>, obj |-> NoItem, cards |-> "absent",
            cardElems |-> <<>>, text |-> <<>>]
\* {}
JEmpty == JDict(NoItem, "absent", <<>>)
\* {"text": body}
JText(body) == [JEmpty EXCEPT !.text = body]

\* the remote's answer to one HTTP request (see Request)
Answer(transport, status, emptyBody, parse, body, json) ==
    [transport |-> transport, status |-> status, emptyBody |-> emptyBody,
     parse |-> parse, body |-> body, json |-> json]

\* a body of n characters: "1234567890123..."
BodyOf(n) == [i \in 1..n |-> DigitChars[(i % 10) + 1]]

\* what a client call returned or raised.  kind: "return", "ApiError",
\* "AuthError" (a TrelloApiError too) or "fault" (any other exception);
\* tag / status / body: the parts of the error message; list: the list a
\* list-returning call returned; data: the value any other call returned.
Returned(data) ==
    [kind |-> "return", tag |-> "none", status |-> 0, body |-> <<>>,
     list |-> <<>>, data |-> data]
ReturnedList(list) ==
    [kind |-> "return", tag |-> "none", status |-> 0, body |-> <<>>,
     list |-> list, data |-> JScalar]
Raised(kind, tag, status, body) ==
    [kind |-> kind, tag |-> tag, status |-> status, body |-> body,
     list |-> <<>>, data |-> JScalar]


\* raise TrelloApiError(f"HTTP {resp.status}: {body[:300]}")
HttpError(r) == Raised("ApiError", "http", r.status, Take(r.body, BodyLimit))


\* _request without the content_length == 0 test
RequestNoEmptyTest(r) ==
    IF r.transport # "ok"
    THEN Raised("ApiError", "network", 0, <<>>)
    ELSE IF r.status \in {StatusUnauthorized, StatusForbidden}
    THEN Raised("AuthError", "auth", 0, <<>>)
    ELSE IF r.status >= StatusErrorFrom
    THEN HttpError(r)
    ELSE IF r.parse = "content_type_error"
    THEN Returned(JText(r.body))
    ELSE IF r.parse = "decode_error"
    THEN Raised("fault", "ValueError", 0, <<>>)
    ELSE Returned(r.json)

\* TrelloClient._request on the remote's answer r.  r.transport: "ok", or the
\* aiohttp.ClientError / asyncio.TimeoutError raised by session.request;
\* r.emptyBody: resp.content_length == 0; r.parse: what resp.json() does, it
\* returns r.json ("json"), raises aiohttp.ContentTypeError
\* ("content_type_error") or raises json.JSONDecodeError, a ValueError that
\* neither except clause catches ("decode_error").
Request(r) ==
    IF r.transport # "ok"
    THEN Raised("ApiError", "network", 0, <<>>)
    ELSE IF r.status \in {StatusUnauthorized, StatusForbidden}
    THEN Raised("AuthError", "auth", 0, <<>>)
    ELSE IF r.status >= StatusErrorFrom
    THEN HttpError(r)
    ELSE IF r.emptyBody
    THEN Returned(JEmpty)
    ELSE IF r.parse = "content_type_error"
    THEN Returned(JText(r.body))
    ELSE IF r.parse = "decode_error"
    THEN Raised("fault", "ValueError", 0, <<>>)
    ELSE Returned(r.json)

\* the element of a set of one element.  Only({ F(x) : x \in {e} }) is F of
\* the value of e, computed once: a local variable x = e
Only(S) == CHOOSE r \in S : TRUE

ShapeError == Raised("ApiError", "shape", 0, <<>>)
ItemShapeError == Raised("ApiError", "item_shape", 0, <<>>)

\* TrelloClient._ensure_dict: the error it raises, or no error
EnsureDictError(data) == IF data.t # "dict" THEN ShapeError ELSE Returned(data)

\* _ensure_list_of_dict without the test of the elements
EnsureListOnly(t, elems) ==
    IF t # "list" THEN ShapeError ELSE ReturnedList(elems)

\* TrelloClient._ensure_list_of_dict on a value of type t with the elements elems
EnsureListOfDict(t, elems) ==
    IF t # "list" THEN ShapeError
    ELSE IF \E i \in 1..Len(elems) : ~elems[i].isObj THEN ItemShapeError
    ELSE ReturnedList(elems)

\* a list returned as it came
KeepAll(list) == list

\* [item for item in data if not item.get("closed")]
DropClosed(list) ==
    LET Open(item) == item.closed # "true" IN SelectSeq(list, Open)

\* get_boards, get_lists, get_list_cards: _request, _ensure_list_of_dict, filter
ListCallFiltered(r) ==
    Only({ IF got.kind # "return" THEN got
           ELSE Only({ IF ok.kind # "return" THEN ok
                       ELSE ReturnedList(DropClosed(ok.list))
                     : ok \in { EnsureListOfDict(got.data.t, got.data.elems) } })
         : got \in { Request(r) } })

\* get_card_checklists: _request, _ensure_list_of_dict
ListCallUnfiltered(r) ==
    Only({ IF got.kind # "return" THEN got
           ELSE EnsureListOfDict(got.data.t, got.data.elems)
         : got \in { Request(r) } })

\* search_cards: _request, _ensure_dict, data.get("cards", []),
\* _ensure_list_of_dict, filter
SearchCards(r) ==
    Only({ IF got.kind # "return" THEN got
           ELSE Only({ IF d.kind # "return" THEN d
                       ELSE Only({ IF ok.kind # "return" THEN ok
                                   ELSE ReturnedList(DropClosed(ok.list))
                                 : ok \in { IF got.data.cards = "absent"
                                            THEN EnsureListOfDict("list", <<>>)
                                            ELSE EnsureListOfDict(got.data.cards,
                                                                  got.data.cardElems) } })
                     : d \in { EnsureDictError(got.data) } })
         : got \in { Request(r) } })

\* a call that is `return await self._request(...)` and nothing else
SingleCall(r) == Request(r)

FilteredListCalls == {"get_boards", "get_lists", "get_list_cards"}
ListCalls == FilteredListCalls \cup {"search_cards", "get_card_checklists"}
GetByIdCalls == {"get_board", "get_list", "get_card", "get_checklist"}
SingleCalls ==
    GetByIdCalls \cup
    {"create_card", "move_card", "create_board", "update_board",
     "archive_board", "create_list", "rename_list", "archive_list",
     "update_card", "archive_card", "delete_card", "add_comment",
     "create_checklist", "delete_checklist", "update_checklist",
     "add_check_item", "set_check_item_state", "update_check_item",
     "delete_check_item"}

\* the client method `call` on the remote's answer r
ClientCall(call, r) ==
    IF call \in FilteredListCalls THEN ListCallFiltered(r)
    ELSE IF call = "get_card_checklists" THEN ListCallUnfiltered(r)
    ELSE IF call = "search_cards" THEN SearchCards(r)
    ELSE SingleCall(r)

(***************************************************************************)
(* The HTTP session of the client (client.py)                              *)
(***************************************************************************)
\* the HTTP sessions the client has held, each "open" or "closed", in the
\* order it got them; cur: the one self._session refers to (0: None); used:
\* the session the last request went through (0: none); log: the calls made;
\* before: sessions and cur before the last call
HttpState(sessions, cur, used, log, before) ==
    [sessions |-> sessions, cur |-> cur, used |-> used, log |-> log, before |-> before]

NoHeld == [sessions |-> <<>>, cur |-> 0]
NoHttp == HttpState(<<>>, 0, 0, <<>>, NoHeld)

\* self._session refers to a session that is not closed
HoldsOpen(h) == h.cur # 0 /\ h.sessions[h.cur] = "open"

\* _get_session that tests self._session for None only
GetSessionIfNone(h) ==
    IF h.cur = 0
    THEN [sessions |-> Append(h.sessions, "open"), cur |-> Len(h.sessions) + 1]
    ELSE [sessions |-> h.sessions, cur |-> h.cur]

\* TrelloClient._get_session: the sessions and self._session after it
GetSession(h) ==
    IF h.cur = 0 \/ h.sessions[h.cur] = "closed"
    THEN [sessions |-> Append(h.sessions, "open"), cur |-> Len(h.sessions) + 1]
    ELSE [sessions |-> h.sessions, cur |-> h.cur]

\* TrelloClient.close: the sessions and self._session after it
CloseSession(h) ==
    IF h.cur # 0 /\ h.sessions[h.cur] # "closed"
    THEN [sessions |-> [h.sessions EXCEPT ![h.cur] = "closed"], cur |-> h.cur]
    ELSE [sessions |-> h.sessions, cur |-> h.cur]

(***************************************************************************)
(* The remote service the plugin talks to                                  *)
(***************************************************************************)
\* a 24-character hexadecimal ID that starts with prefix
Hex24(prefix) == prefix \o [i \in 1..(IdLen - Len(prefix)) |-> "0"]

IdB1 == Hex24(<<"b", "1">>)
IdB2 == Hex24(<<"B", "2">>)
IdB3 == Hex24(<<"b", "3">>)
IdL1 == Hex24(<<"a", "1">>)
IdL2 == Hex24(<<"A", "2">>)
IdC1 == Hex24(<<"c", "1">>)
IdC2 == Hex24(<<"c", "2">>)
IdC3 == Hex24(<<"C", "3">>)
IdK1 == Hex24(<<"d", "1">>)
IdK2 == Hex24(<<"d", "2">>)
IdE1 == Hex24(<<"e", "1">>)
IdE2 == Hex24(<<"e", "2">>)
\* an ID that names nothing on the remote
IdX == Hex24(<<"f", "F">>)

NameDesign == <<"D","e","s","i","g","n">>
NameDesignReview == <<"D","e","s","i","g","n"," ","R","e","v","i","e","w">>
NameOld == <<"O","l","d">>
NameTodo == <<"T","o","d","o">>
NameDone == <<"D","o","n","e">>
NameFix == <<"F","i","x">>
NameFixTwo == <<"F","i","x"," ","2">>
NameDocs == <<"D","o","c","s">>
NameQa == <<"Q","A">>
NameQaFinal == <<"Q","A"," ","f","i","n","a","l">>
NameRun == <<"r","u","n">>
NameRunLint == <<"r","u","n"," ","l","i","n","t">>

Board(id, name, closed) == [Object(id, name) EXCEPT !.closed = closed]
List(id, name, board) ==
    [Object(id, name) EXCEPT !.closed = "false", !.idBoard = board]
Card(id, name, board, list, closed) ==
    [Object(id, name) EXCEPT !.closed = closed, !.idBoard = board, !.idList = list]
CheckItem(id, name) == Object(id, name)
Checklist(id, name, card, checkItems) ==
    [Object(id, name) EXCEPT !.idCard = card, !.checkItems = checkItems]

WorldBoards ==
    << Board(IdB1, NameDesign, "false"), Board(IdB3, NameOld, "true"),
       Board(IdB2, NameDesignReview, "false") >>
WorldLists == << List(IdL1, NameTodo, IdB1), List(IdL2, NameDone, IdB1) >>
WorldCards ==
    << Card(IdC1, NameFix, IdB1, IdL1, "false"),
       Card(IdC2, NameFixTwo, IdB1, IdL1, "false"),
       Card(IdC3, NameDocs, IdB1, IdL2, "false") >>
WorldChecklists ==
    << Checklist(IdK1, NameQa, IdC1,
                 << CheckItem(IdE1, NameRun), CheckItem(IdE2, NameRunLint) >>),
       Checklist(IdK2, NameQaFinal, IdC1, <<>>) >>

\* the remote's answer with the JSON value json
OkAnswer(json) == Answer("ok", 200, FALSE, "json", BodyOf(3), json)
\* the remote's answer for an ID it does not know
NotFoundAnswer == Answer("ok", 404, FALSE, "json", BodyOf(3), JScalar)

\* the object with the ID id among objs, as the answer to a get-by-ID request
AnswerById(objs, id) ==
    IF \E i \in 1..Len(objs) : objs[i].id = id
    THEN OkAnswer(JDict(objs[CHOOSE i \in 1..Len(objs) : objs[i].id = id],
                        "absent", <<>>))
    ELSE NotFoundAnswer

\* the children of a parent as the answer to a listing request: known says
\* whether the remote knows the parent
AnswerChildren(known, children) ==
    IF known THEN OkAnswer(JList(children)) ELSE NotFoundAnswer

\* the remote knows an object with the ID id among objs
Known(objs, id) == \E i \in 1..Len(objs) : objs[i].id = id

\* the ID and the name the remote gives to an object it creates
IdNew == Hex24(<<"9", "9">>)
NameNew == <<"N","e","w">>
\* the remote's answer to a request that created obj
Created(obj) == OkAnswer(JDict(obj, "absent", <<>>))

\* what the remote answers to the request of the client method `call` with
\* the argument arg (an ID) and, for search_cards, the keyword
WorldAnswer(call, arg, keyword) ==
    LET OnBoard(o) == o.idBoard = arg
        InList(o) == o.idList = arg
        OnCard(o) == o.idCard = arg
        Hit(o) == o.idBoard = arg /\ Contains(Casefold(o.name), Casefold(keyword))
    IN  CASE call = "get_boards" -> OkAnswer(JList(WorldBoards))
          [] call = "get_lists" ->
                AnswerChildren(Known(WorldBoards, arg), SelectSeq(WorldLists, OnBoard))
          [] call = "get_list_cards" ->
                AnswerChildren(Known(WorldLists, arg), SelectSeq(WorldCards, InList))
          [] call = "get_card_checklists" ->
                AnswerChildren(Known(WorldCards, arg), SelectSeq(WorldChecklists, OnCard))
          [] call = "search_cards" ->
                IF Known(WorldBoards, arg)
                THEN OkAnswer(JDict(NoItem, "list", SelectSeq(WorldCards, Hit)))
                ELSE NotFoundAnswer
          [] call = "get_board" -> AnswerById(WorldBoards, arg)
          [] call = "get_list" -> AnswerById(WorldLists, arg)
          [] call = "get_card" -> AnswerById(WorldCards, arg)
          [] call = "get_checklist" -> AnswerById(WorldChecklists, arg)
          [] call \in {"update_board", "archive_board"} -> AnswerById(WorldBoards, arg)
          [] call \in {"rename_list", "archive_list"} -> AnswerById(WorldLists, arg)
          [] call = "update_card" -> AnswerById(WorldCards, arg)
          [] call = "update_checklist" -> AnswerById(WorldChecklists, arg)
          [] call = "create_board" -> Created(Board(IdNew, NameNew, "false"))
          [] call = "create_list" -> Created(List(IdNew, NameNew, arg))
          [] call = "create_card" -> Created(Card(IdNew, NameNew, IdB1, arg, "false"))
          [] call = "create_checklist" -> Created(Checklist(IdNew, NameNew, arg, <<>>))
          [] call = "add_check_item" -> Created(CheckItem(IdNew, NameNew))
          [] OTHER -> OkAnswer(JEmpty)

\* the answers the remote may give in the place of the expected one
OddAnswers ==
    { Answer("ok", StatusUnauthorized, FALSE, "json", BodyOf(3), JScalar),
      Answer("ok", 500, FALSE, "json", BodyOf(3), JScalar),
      Answer("timeout", 0, FALSE, "json", <<>>, JScalar),
      Answer("ok", 200, TRUE, "json", <<>>, JScalar),
      OkAnswer(JList(<<>>)) }

\* the longest chain of gateway calls of one resolution or invocation in
\* which an odd answer is placed
MaxChain == 3

\* which gateway call of an invocation, if any, gets which odd answer
NoOdd == [at |-> 0, ans |-> OkAnswer(JEmpty)]
Oracles == { NoOdd } \cup { [at |-> k, ans |-> a] : k \in 1..MaxChain, a \in OddAnswers }

(***************************************************************************)
(* Reference resolvers (main.py)                                           *)
(***************************************************************************)
CallRec(call, arg) == [call |-> call, arg |-> arg]

\* self.client.<call>(...) as the next gateway call after `calls`
Gw(call, arg, keyword, calls, orc) ==
    Only({ ClientCall(call, x) : x \in { IF orc.at = Len(calls) + 1 THEN orc.ans
           ELSE WorldAnswer(call, arg, keyword) } })

NoExc == Raised("none", "none", 0, <<>>)
Err(kind) == [kind |-> kind, q |-> <<>>, cands |-> <<>>]

\* what a resolver returned or raised.  id / obj / err: the tuple it returned
\* (hasObj: obj is not None); cardId, checklistId: the further IDs the
\* checklist and checklist-item resolvers return; calls: the gateway calls it
\* issued; exc: the exception that left it; how: whether the reference was
\* taken as an "id" or as a "name" ("none": the resolver returned before).
ROk(id, obj, hasObj, calls, how) ==
    [id |-> id, obj |-> obj, hasObj |-> hasObj, err |-> NoError, cardId |-> <<>>,
     checklistId |-> <<>>, calls |-> calls, exc |-> NoExc, how |-> how]
RErr(err, calls, how) ==
    [id |-> <<>>, obj |-> NoItem, hasObj |-> FALSE, err |-> err, cardId |-> <<>>,
     checklistId |-> <<>>, calls |-> calls, exc |-> NoExc, how |-> how]
RExc(exc, calls, how) ==
    [id |-> <<>>, obj |-> NoItem, hasObj |-> FALSE, err |-> NoError, cardId |-> <<>>,
     checklistId |-> <<>>, calls |-> calls,
     exc |-> Raised(exc.kind, exc.tag, exc.status, exc.body), how |-> how]

\* a resolver returned without an error and without raising
Resolved(r) == r.exc.kind = "none" /\ r.err.kind = "none"

\* the return after a listing call that takes a failed call for an empty
\* listing and goes on to the name match
MatchInFailureAsEmpty(got, ref, calls) ==
    Only({ IF mt.err.kind # "none" THEN RErr(mt.err, calls, "name")
           ELSE ROk(mt.item.id, mt.item, TRUE, calls, "name")
         : mt \in { MatchNamedItem(IF got.kind # "return" THEN <<>>
                                   ELSE got.list, ref) } })

\* item, err = self._match_named_item(got.list, ref) and the return that
\* follows, got being what the listing call returned or raised
MatchIn(got, ref, calls) ==
    IF got.kind # "return" THEN RExc(got, calls, "name")
    ELSE Only({ IF mt.err.kind # "none" THEN RErr(mt.err, calls, "name")
                ELSE ROk(mt.item.id, mt.item, TRUE, calls, "name")
              : mt \in { MatchNamedItem(got.list, ref) } })

\* the listing call, then the name match among what it listed
ListAndMatch(call, arg, keyword, ref, calls, orc) ==
    Only({ MatchIn(got, ref, Append(calls, CallRec(call, arg)))
         : got \in { Gw(call, arg, keyword, calls, orc) } })

\* _resolve_board_ref without the session's board as the default
ResolveBoardRefNoFallback(sess, board_ref, calls, orc) ==
    LET ref == Strip(board_ref)
    IN  IF ref = <<>> THEN RErr(Err("no_board_selected"), calls, "none")
        ELSE IF LooksLikeTrelloId(ref) THEN ROk(ref, NoItem, FALSE, calls, "id")
        ELSE ListAndMatch("get_boards", <<>>, <<>>, ref, calls, orc)

\* TrelloPlugin._resolve_board_ref
ResolveBoardRef(sess, board_ref, calls, orc) ==
    LET given == Strip(board_ref)
        ref == IF given = <<>> THEN sess.board_id ELSE given
    IN  IF ref = <<>> THEN RErr(Err("no_board_selected"), calls, "none")
        ELSE IF LooksLikeTrelloId(ref) THEN ROk(ref, NoItem, FALSE, calls, "id")
        ELSE ListAndMatch("get_boards", <<>>, <<>>, ref, calls, orc)

\* TrelloPlugin._resolve_list_ref
ResolveListRef(sess, list_ref, calls, orc) ==
    LET given == Strip(list_ref)
        ref == IF given = <<>> THEN sess.list_id ELSE given
    IN  IF ref = <<>> THEN RErr(Err("no_list_selected"), calls, "none")
        ELSE IF LooksLikeTrelloId(ref) THEN ROk(ref, NoItem, FALSE, calls, "id")
        ELSE IF sess.board_id = <<>> THEN RErr(Err("list_needs_board"), calls, "name")
        ELSE ListAndMatch("get_lists", sess.board_id, <<>>, ref, calls, orc)

\* TrelloPlugin._resolve_card_ref, from the board-wide search on
ResolveCardOnBoard(sess, ref, calls, orc) ==
    IF sess.board_id = <<>> THEN RErr(Err("card_needs_scope"), calls, "name")
    ELSE ListAndMatch("search_cards", sess.board_id, ref, ref, calls, orc)

\* _resolve_card_ref that returns what the search in the session's list gave,
\* match or error, and searches the board only when no list is selected
ResolveCardRefListOnly(sess, card_ref, calls, orc) ==
    LET given == Strip(card_ref)
        ref == IF given = <<>> THEN sess.card_id ELSE given
    IN  IF ref = <<>> THEN RErr(Err("card_usage"), calls, "none")
        ELSE IF LooksLikeTrelloId(ref) THEN ROk(ref, NoItem, FALSE, calls, "id")
        ELSE IF sess.list_id = <<>> THEN ResolveCardOnBoard(sess, ref, calls, orc)
        ELSE ListAndMatch("get_list_cards", sess.list_id, <<>>, ref, calls, orc)

\* TrelloPlugin._resolve_card_ref
ResolveCardRef(sess, card_ref, calls, orc) ==
    LET given == Strip(card_ref)
        ref == IF given = <<>> THEN sess.card_id ELSE given
    IN  IF ref = <<>> THEN RErr(Err("card_usage"), calls, "none")
        ELSE IF LooksLikeTrelloId(ref) THEN ROk(ref, NoItem, FALSE, calls, "id")
        ELSE IF sess.list_id = <<>> THEN ResolveCardOnBoard(sess, ref, calls, orc)
        ELSE Only({ IF inList.exc.kind # "none" \/ inList.err.kind = "none"
                    THEN inList
                    ELSE ResolveCardOnBoard(sess, ref, inList.calls, orc)
                  : inList \in { ListAndMatch("get_list_cards", sess.list_id, <<>>,
                                              ref, calls, orc) } })

\* TrelloPlugin._normalize_resource on a trimmed, lower-case resource word
\* written with underscores: the alias table
NormalizeResource(resource) ==
    CASE resource = "boards" -> "board"
      [] resource = "lists" -> "list"
      [] resource = "cards" -> "card"
      [] resource = "checklists" -> "checklist"
      [] resource \in {"items", "check_items", "checkitem", "check_item"} ->
            "checklist_item"
      [] OTHER -> resource

\* the result of the parent's resolver as the resolver of the child returns
\* it: `if err or not list_id: return "", None, err or "List not found."`
ParentFailed(pr, notFound, how) ==
    IF pr.exc.kind # "none" THEN RExc(pr.exc, pr.calls, how)
    ELSE RErr(IF pr.err.kind # "none" THEN pr.err ELSE Err(notFound), pr.calls, how)

\* _resolve_card_with_optional_parent that, when the name has no unique match
\* among the cards of the parent, goes on to a keyword search with the same
\* scope
CardInParentRetried(pr, call, notFound, card_ref, orc) ==
    IF ~Resolved(pr) \/ pr.id = <<>> THEN ParentFailed(pr, notFound, "name")
    ELSE Only({ IF r.exc.kind # "none" \/ r.err.kind = "none" THEN r
                ELSE ListAndMatch("search_cards", pr.id, card_ref, card_ref,
                                  r.calls, orc)
              : r \in { ListAndMatch(call, pr.id, card_ref, card_ref,
                                     pr.calls, orc) } })

\* _resolve_card_with_optional_parent, the card searched in the parent that
\* resolved to pr
CardInParent(pr, call, notFound, card_ref, orc) ==
    IF ~Resolved(pr) \/ pr.id = <<>> THEN ParentFailed(pr, notFound, "name")
    ELSE ListAndMatch(call, pr.id, card_ref, card_ref, pr.calls, orc)

\* _resolve_card_with_optional_parent without the test of the card reference
\* for the ID shape: a card with an explicit parent is always searched there
ResolveCardInParentAlways(sess, card_ref, parent_resource, parent_id_or_name, calls, orc) ==
    LET pres == NormalizeResource(parent_resource)
        parent_ref == Strip(parent_id_or_name)
    IN  IF pres = "list" /\ parent_ref # <<>>
        THEN Only({ CardInParent(lr, "get_list_cards", "list_not_found", card_ref, orc)
                  : lr \in { ResolveListRef(sess, parent_ref, calls, orc) } })
        ELSE IF pres = "board" /\ parent_ref # <<>>
        THEN Only({ CardInParent(br, "search_cards", "board_not_found", card_ref, orc)
                  : br \in { ResolveBoardRef(sess, parent_ref, calls, orc) } })
        ELSE ResolveCardRef(sess, card_ref, calls, orc)

\* TrelloPlugin._resolve_card_with_optional_parent
ResolveCardWithParent(sess, card_ref, parent_resource, parent_id_or_name, calls, orc) ==
    LET pres == NormalizeResource(parent_resource)
        parent_ref == Strip(parent_id_or_name)
    IN  IF pres = "list" /\ parent_ref # <<>> /\ ~LooksLikeTrelloId(card_ref)
        THEN Only({ CardInParent(lr, "get_list_cards", "list_not_found", card_ref, orc)
                  : lr \in { ResolveListRef(sess, parent_ref, calls, orc) } })
        ELSE IF pres = "board" /\ parent_ref # <<>> /\ ~LooksLikeTrelloId(card_ref)
        THEN Only({ CardInParent(br, "search_cards", "board_not_found", card_ref, orc)
                  : br \in { ResolveBoardRef(sess, parent_ref, calls, orc) } })
        ELSE ResolveCardRef(sess, card_ref, calls, orc)

\* the first object of objs with the ID id (None if there is none), returned
\* with the ID as it was given
FindById(objs, id, calls, cardId, checklistId) ==
    LET at == { i \in 1..Len(objs) : objs[i].id = id }
        first == CHOOSE i \in at : \A j \in at : i <= j
    IN  [ROk(id, IF at = {} THEN NoItem ELSE objs[first], at # {}, calls, "id")
            EXCEPT !.cardId = cardId, !.checklistId = checklistId]

\* _resolve_checklist_ref, the checklist looked up among the checklists of
\* the card cardId
ChecklistOfCard(ref, cardId, calls, orc) ==
    LET calls2 == Append(calls, CallRec("get_card_checklists", cardId))
    IN  IF LooksLikeTrelloId(ref)
        THEN Only({ IF got.kind # "return" THEN RExc(got, calls2, "id")
                    ELSE FindById(got.list, ref, calls2, cardId, <<>>)
                  : got \in { Gw("get_card_checklists", cardId, <<>>, calls, orc) } })
        ELSE Only({ IF Resolved(r) THEN [r EXCEPT !.cardId = cardId] ELSE r
                  : r \in { ListAndMatch("get_card_checklists", cardId,
                                         <<>>, ref, calls, orc) } })

\* _resolve_checklist_ref when no card reference and no card parent is given
ChecklistWithoutCard(ref, calls) ==
    IF LooksLikeTrelloId(ref) THEN ROk(ref, NoItem, FALSE, calls, "id")
    ELSE RErr(Err("checklist_needs_card"), calls, "name")

\* TrelloPlugin._resolve_checklist_ref
ResolveChecklistRef(sess, checklist_ref, card_ref, parent_resource, parent_id_or_name, calls, orc) ==
    LET ref == Strip(checklist_ref)
        viaParent == parent_resource # "" /\ NormalizeResource(parent_resource) = "card"
    IN  IF ref = <<>> THEN RErr(Err("checklist_required"), calls, "none")
        ELSE IF viaParent \/ card_ref # <<>>
        THEN Only({ IF ~Resolved(cr) \/ cr.id = <<>>
                    THEN ParentFailed(cr, "card_not_found", "none")
                    ELSE ChecklistOfCard(ref, cr.id, cr.calls, orc)
                  : cr \in { ResolveCardWithParent(sess,
                     IF viaParent THEN parent_id_or_name ELSE card_ref, "", <<>>,
                     calls, orc) } })
        ELSE ChecklistWithoutCard(ref, calls)

\* _resolve_checklist_item_ref, the item looked up in the checklist object
\* (kr.id its ID, cardId the owning card, if known)
ItemOfChecklist(ref, checklist, kr, calls) ==
    LET \* `if not card_id and checklist: card_id = checklist.get("idCard")`
        cardId == IF kr.cardId = <<>> THEN checklist.idCard ELSE kr.cardId
        K(mt) == IF mt.err.kind # "none" THEN RErr(mt.err, calls, "name")
                 ELSE [ROk(mt.item.id, mt.item, TRUE, calls, "name")
                         EXCEPT !.cardId = cardId, !.checklistId = kr.id]
    IN  IF LooksLikeTrelloId(ref)
        THEN FindById(checklist.checkItems, ref, calls, cardId, kr.id)
        ELSE Only({ K(x) : x \in { MatchNamedItem(checklist.checkItems, ref) } })

\* _resolve_checklist_item_ref once the checklist is resolved to kr
ItemInResolvedChecklist(ref, kr, orc) ==
    LET calls2 == Append(kr.calls, CallRec("get_checklist", kr.id))
    IN  IF ~Resolved(kr) \/ kr.id = <<>>
        THEN ParentFailed(kr, "checklist_not_found", "none")
        ELSE IF kr.hasObj THEN ItemOfChecklist(ref, kr.obj, kr, kr.calls)
        ELSE Only({ IF got.kind # "return" THEN RExc(got, calls2, "none")
                    \* checklist.get(...) on a value that is no object:
                    \* AttributeError
                    ELSE IF got.data.t # "dict"
                    THEN RExc(Raised("fault", "AttributeError", 0, <<>>), calls2, "none")
                    ELSE ItemOfChecklist(ref, got.data.obj, kr, calls2)
                  : got \in { Gw("get_checklist", kr.id, <<>>, kr.calls, orc) } })

\* TrelloPlugin._resolve_checklist_item_ref
ResolveChecklistItemRef(sess, item_ref, checklist_ref, card_ref, parent_resource, parent_id_or_name, calls, orc) ==
    LET ref == Strip(item_ref)
        viaParent == NormalizeResource(parent_resource) = "checklist"
                     /\ parent_id_or_name # <<>>
    IN  IF ref = <<>> THEN RErr(Err("item_required"), calls, "none")
        ELSE IF ~viaParent /\ checklist_ref = <<>>
        THEN RErr(Err("item_needs_checklist"), calls, "none")
        ELSE Only({ ItemInResolvedChecklist(ref, kr, orc)
                  : kr \in { ResolveChecklistRef(sess,
                     IF viaParent THEN parent_id_or_name ELSE checklist_ref,
                     card_ref, "", <<>>, calls, orc) } })

(***************************************************************************)
(* Selection handlers (main.py)                                            *)
(***************************************************************************)
\* _sync_context_from_card with every field written, the empty ones too
SyncContextAlways(sess, card) ==
    [sess EXCEPT !.board_id = card.idBoard, !.list_id = card.idList,
                 !.card_id = card.id]

\* _sync_context_from_card that writes the card's id as the current card
\* whether it is empty or not
SyncContextCardAlways(sess, card) ==
    [sess EXCEPT !.board_id = IF card.idBoard # <<>> THEN card.idBoard ELSE @,
                 !.list_id = IF card.idList # <<>> THEN card.idList ELSE @,
                 !.card_id = card.id]

\* TrelloPlugin._sync_context_from_card: the session after it
SyncContextFromCard(sess, card) ==
    [sess EXCEPT !.board_id = IF card.idBoard # <<>> THEN card.idBoard ELSE @,
                 !.list_id = IF card.idList # <<>> THEN card.idList ELSE @,
                 !.card_id = IF card.id # <<>> THEN card.id ELSE @]

\* what a handler did: the session it left, the kind of message it returned
\* ("fault": an exception left the handler), the result of the resolver
\* (with every gateway call of the handler in calls) and what get_card
\* returned or raised
Handled(sess, msg, res, fetched) ==
    [session |-> sess, msg |-> msg, res |-> res, fetched |-> fetched]

NotResolved == RErr(Err("none"), <<>>, "none")

\* the except clauses of a handler: TrelloAuthError, TrelloApiError; any
\* other exception leaves the handler
Caught(exc, sess, res, fetched) ==
    Handled(sess,
            IF exc.kind = "AuthError" THEN "auth_failed"
            ELSE IF exc.kind = "ApiError" THEN "trello_error" ELSE "fault",
            res, fetched)

\* a resolver result r with the gateway call `call` added to its calls
AndCall(r, call, arg) == [r EXCEPT !.calls = Append(@, CallRec(call, arg))]

\* the board selection that resets everything under the board: the list and
\* the done list are cleared with the card
BoardSelectedResetsLists(sess, r) ==
    IF r.exc.kind # "none" THEN Caught(r.exc, sess, r, NoExc)
    ELSE IF r.err.kind # "none" \/ r.id = <<>> THEN Handled(sess, "error", r, NoExc)
    ELSE Handled([sess EXCEPT !.board_id = r.id, !.card_id = <<>>,
                              !.list_id = <<>>, !.done_list_id = <<>>],
                 "selected", r, NoExc)

\* use_board and the board branch of trello_select_tool, from the resolved
\* board on
BoardSelected(sess, r) ==
    IF r.exc.kind # "none" THEN Caught(r.exc, sess, r, NoExc)
    ELSE IF r.err.kind # "none" \/ r.id = <<>> THEN Handled(sess, "error", r, NoExc)
    ELSE Handled([sess EXCEPT !.board_id = r.id, !.card_id = <<>>], "selected",
                 r, NoExc)

\* use_list and the list branch of trello_select_tool, from the resolved list on
ListSelected(sess, r) ==
    IF r.exc.kind # "none" THEN Caught(r.exc, sess, r, NoExc)
    ELSE IF r.err.kind # "none" \/ r.id = <<>> THEN Handled(sess, "error", r, NoExc)
    ELSE Handled([sess EXCEPT !.list_id = r.id, !.card_id = <<>>], "selected",
                 r, NoExc)

\* TrelloPlugin.use_board
UseBoardCommand(sess, board_id, configured, orc) ==
    LET K(r) == BoardSelected(sess, r)
    IN  IF board_id = <<>> THEN Handled(sess, "usage", NotResolved, NoExc)
        ELSE IF ~configured THEN Handled(sess, "no_credentials", NotResolved, NoExc)
        ELSE Only({ K(x) : x \in { ResolveBoardRef(sess, board_id, <<>>, orc) } })

\* TrelloPlugin.use_list
UseListCommand(sess, list_id, configured, orc) ==
    LET K(r) == ListSelected(sess, r)
    IN  IF list_id = <<>> THEN Handled(sess, "usage", NotResolved, NoExc)
        ELSE IF ~configured THEN Handled(sess, "no_credentials", NotResolved, NoExc)
        ELSE Only({ K(x) : x \in { ResolveListRef(sess, list_id, <<>>, orc) } })

\* TrelloPlugin.use_done
UseDoneCommand(sess, list_id) ==
    IF list_id = <<>> THEN Handled(sess, "usage", NotResolved, NoExc)
    ELSE Handled([sess EXCEPT !.done_list_id = list_id], "selected", NotResolved,
                 NoExc)

\* card = get_card(card_id); _sync_context_from_card(card), r2 being the
\* resolver result with the get_card call recorded.  card.get on a value that
\* is no object raises AttributeError before anything is written.
CardFetched(sess, r2, got) ==
    IF got.kind # "return" THEN Caught(got, sess, r2, got)
    ELSE IF got.data.t # "dict" THEN Handled(sess, "fault", r2, got)
    ELSE Handled(SyncContextFromCard(sess, got.data.obj), "selected", r2, got)

\* the card branch of trello_select_tool, from the resolved card on
CardSelected(sess, r, orc) ==
    LET K(got) == CardFetched(sess, AndCall(r, "get_card", r.id), got)
    IN  IF r.exc.kind # "none" THEN Caught(r.exc, sess, r, NoExc)
        ELSE IF r.err.kind # "none" \/ r.id = <<>> THEN Handled(sess, "error", r, NoExc)
        ELSE Only({ K(x) : x \in { Gw("get_card", r.id, <<>>, r.calls, orc) } })

\* the checklist branch of trello_select_tool once the checklist object is at
\* hand (isDict: it is an object): the card of the lookup is fetched and the
\* session synchronised, then checklist.get('name') raises AttributeError on
\* a checklist that is no object
ChecklistAtHand(sess, r, isDict, orc) ==
    LET Named(h) == IF h.msg = "selected" /\ ~isDict
                    THEN Handled(h.session, "fault", h.res, h.fetched) ELSE h
        K(got) == Named(CardFetched(sess, AndCall(r, "get_card", r.cardId), got))
    IN  IF r.cardId # <<>>
        THEN Only({ K(x) : x \in { Gw("get_card", r.cardId, <<>>, r.calls, orc) } })
        ELSE Named(Handled(sess, "selected", r, NoExc))

\* the checklist branch of trello_select_tool, from the resolved checklist on
ChecklistSelected(sess, r, orc) ==
    LET K(got) == IF got.kind # "return"
                  THEN Caught(got, sess, AndCall(r, "get_checklist", r.id), NoExc)
                  ELSE ChecklistAtHand(sess, AndCall(r, "get_checklist", r.id),
                                       got.data.t = "dict", orc)
    IN  IF r.exc.kind # "none" THEN Caught(r.exc, sess, r, NoExc)
        ELSE IF r.err.kind # "none" \/ r.id = <<>> THEN Handled(sess, "error", r, NoExc)
        ELSE IF r.hasObj THEN ChecklistAtHand(sess, r, TRUE, orc)
        ELSE Only({ K(x) : x \in { Gw("get_checklist", r.id, <<>>, r.calls, orc) } })

\* TrelloPlugin.trello_select_tool
SelectTool(sess, resource, id_or_name, parent_resource, parent_id_or_name, configured, orc) ==
    LET res == NormalizeResource(resource)
        B(r) == BoardSelected(sess, r)
        L(r) == ListSelected(sess, r)
        C(r) == CardSelected(sess, r, orc)
        K(r) == ChecklistSelected(sess, r, orc)
    IN  IF ~configured THEN Handled(sess, "no_credentials", NotResolved, NoExc)
        ELSE CASE res = "board" ->
                    Only({ B(x) : x \in { ResolveBoardRef(sess, id_or_name, <<>>, orc) } })
               [] res = "list" ->
                    Only({ L(x) : x \in { ResolveListRef(sess, id_or_name, <<>>, orc) } })
               [] res = "card" ->
                    Only({ C(x) : x \in { ResolveCardWithParent(sess, id_or_name, parent_resource,
                                               parent_id_or_name, <<>>, orc) } })
               [] res = "checklist" ->
                    Only({ K(x) : x \in { ResolveChecklistRef(sess, id_or_name, <<>>, parent_resource,
                                             parent_id_or_name, <<>>, orc) } })
               [] OTHER -> Handled(sess, "unsupported", NotResolved, NoExc)

\* board_info after get_board returned got: the board is written, and the
\* card cleared if the resolver returned no preview, before board.get(...)
\* raises AttributeError on a value that is no object
BoardShown(sess, r, got) ==
    LET written == [sess EXCEPT !.board_id = r.id,
                                !.card_id = IF r.hasObj THEN @ ELSE <<>>]
    IN  IF got.kind # "return" THEN Caught(got, sess, AndCall(r, "get_board", r.id), got)
        ELSE Handled(written, IF got.data.t = "dict" THEN "ok" ELSE "fault",
                     AndCall(r, "get_board", r.id), got)

\* TrelloPlugin.board_info (/trello board-info)
BoardInfoCommand(sess, board_id, configured, orc) ==
    IF ~configured THEN Handled(sess, "no_credentials", NotResolved, NoExc)
    ELSE Only({ IF r.exc.kind # "none" THEN Caught(r.exc, sess, r, NoExc)
                ELSE IF r.err.kind # "none" \/ r.id = <<>>
                THEN Handled(sess, "error", r, NoExc)
                ELSE Only({ BoardShown(sess, r, got) :
                            got \in { Gw("get_board", r.id, <<>>, r.calls, orc) } }) :
                r \in { ResolveBoardRef(sess, board_id, <<>>, orc) } })

\* card after get_card returned got: the card is written, then
\* card.get("idBoard") raises AttributeError on a value that is no object
CardShown(sess, r, got) ==
    IF got.kind # "return" THEN Caught(got, sess, AndCall(r, "get_card", r.id), got)
    ELSE IF got.data.t # "dict"
    THEN Handled([sess EXCEPT !.card_id = r.id], "fault",
                 AndCall(r, "get_card", r.id), got)
    ELSE Handled([sess EXCEPT
                    !.card_id = r.id,
                    !.board_id = IF got.data.obj.idBoard # <<>>
                                 THEN got.data.obj.idBoard ELSE @,
                    !.list_id = IF got.data.obj.idList # <<>>
                                THEN got.data.obj.idList ELSE @],
                 "ok", AndCall(r, "get_card", r.id), got)

\* TrelloPlugin.card (/trello card)
CardCommand(sess, card_id, configured, orc) ==
    IF ~configured THEN Handled(sess, "no_credentials", NotResolved, NoExc)
    ELSE Only({ IF r.exc.kind # "none" THEN Caught(r.exc, sess, r, NoExc)
                ELSE IF r.err.kind # "none" \/ r.id = <<>>
                THEN Handled(sess, "error", r, NoExc)
                ELSE Only({ CardShown(sess, r, got) :
                            got \in { Gw("get_card", r.id, <<>>, r.calls, orc) } }) :
                r \in { ResolveCardRef(sess, card_id, <<>>, orc) } })

(***************************************************************************)
(* The read and write tools (main.py)                                      *)
(***************************************************************************)
\* the except clauses of trello_read_tool and trello_write_tool:
\* TrelloAuthError, TrelloApiError, Exception
CaughtAll(exc, sess, res, fetched) ==
    Handled(sess,
            IF exc.kind = "AuthError" THEN "auth_failed"
            ELSE IF exc.kind = "ApiError" THEN "trello_error" ELSE "input_error",
            res, fetched)

\* `if err or not id: return err or "... not found."`, or the exception of
\* the resolver caught by the tool
NotResolvedInTool(sess, r) ==
    IF r.exc.kind # "none" THEN CaughtAll(r.exc, sess, r, NoExc)
    ELSE Handled(sess, "error", r, NoExc)

\* the end of a branch that, with the session written to `written`, reads the
\* fields of the object got: x.get(...) on a value that is no object raises
\* AttributeError
ObjectRead(written, r2, got) ==
    Handled(written, IF got.data.t = "dict" THEN "ok" ELSE "input_error", r2, got)

\* the resolver that a branch of a tool calls on its target or on the parent
\* of its target ("none": the branch calls no resolver)
ResolveTarget(kind, sess, ref, checklist_ref, card_ref, parent_resource, parent_id_or_name, orc) ==
    CASE kind = "board" -> ResolveBoardRef(sess, ref, <<>>, orc)
      [] kind = "list" -> ResolveListRef(sess, ref, <<>>, orc)
      [] kind = "card" ->
            ResolveCardWithParent(sess, ref, parent_resource, parent_id_or_name,
                                  <<>>, orc)
      [] kind = "checklist" ->
            ResolveChecklistRef(sess, ref, card_ref, parent_resource,
                                parent_id_or_name, <<>>, orc)
      [] kind = "checklist_item" ->
            ResolveChecklistItemRef(sess, ref, checklist_ref, card_ref,
                                    parent_resource, parent_id_or_name, <<>>, orc)
      [] OTHER -> NotResolved

\* parent_id_or_name if parent_resource names the resource `wanted`, else ""
ParentRefIf(parent_resource, parent_id_or_name, wanted) ==
    IF NormalizeResource(parent_resource) = wanted THEN parent_id_or_name ELSE <<>>

\* the session after `_set_current_list(list_id)` and, if list_data has an
\* idBoard, `_set_current_board(idBoard)`; list_data.get on a value that is
\* no object raises AttributeError after the list is written
ListContextWritten(sess, list_id, got) ==
    IF got.data.t = "dict" /\ got.data.obj.idBoard # <<>>
    THEN [sess EXCEPT !.list_id = list_id, !.board_id = got.data.obj.idBoard]
    ELSE [sess EXCEPT !.list_id = list_id]

\* the writes are made whatever switch_context is
SwitchedAlways(switch_context, sess, written) == written

\* `if switch_context:` before the writes that lead from sess to written
Switched(switch_context, sess, written) == IF switch_context THEN written ELSE sess

\* the session after `_sync_context_from_card(card)` on what get_card or
\* update_card returned; card.get on a value that is no object raises
\* before anything is written
CardContextWritten(sess, got) ==
    IF got.data.t = "dict" THEN SyncContextFromCard(sess, got.data.obj) ELSE sess

\* get_card(card_id) and _sync_context_from_card after the calls r2.calls
CardSynced(sess, r2, card_id, orc) ==
    Only({ IF got.kind # "return"
           THEN CaughtAll(got, sess, AndCall(r2, "get_card", card_id), got)
           ELSE ObjectRead(CardContextWritten(sess, got),
                           AndCall(r2, "get_card", card_id), got) :
           got \in { Gw("get_card", card_id, <<>>, r2.calls, orc) } })

\* the end of a branch that reads the fields of a checklist (isDict: it is an
\* object) after h: checklist.get raises AttributeError on a value that is no
\* object, whatever was written before
ChecklistRead(h, isDict) ==
    IF h.msg = "ok" /\ ~isDict THEN Handled(h.session, "input_error", h.res, h.fetched)
    ELSE h

\* the resolver called by the branch (resource, mode) of trello_read_tool
ReadResolver(rs, mode) ==
    CASE rs = "board" /\ mode = "list" -> "none"
      [] rs = "board" /\ mode = "get" -> "board"
      [] rs = "list" /\ mode = "list" -> "board"
      [] rs = "list" /\ mode = "get" -> "list"
      [] rs = "card" /\ mode = "list" -> "list"
      [] rs = "card" /\ mode = "get" -> "card"
      [] rs = "checklist" /\ mode = "list" -> "card"
      [] rs = "checklist" /\ mode = "get" -> "checklist"
      [] rs = "checklist_item" /\ mode = "list" -> "checklist"
      [] rs = "checklist_item" /\ mode = "get" -> "checklist_item"
      [] OTHER -> "unsupported"

\* the client method called by the branch on what the resolver returned
\* ("none": the branch calls none)
ReadCall(rs, mode, r) ==
    CASE rs = "board" /\ mode = "list" -> "get_boards"
      [] rs = "board" /\ mode = "get" -> "get_board"
      [] rs = "list" /\ mode = "list" -> "get_lists"
      [] rs = "list" /\ mode = "get" -> "get_list"
      [] rs = "card" /\ mode = "list" -> "get_list_cards"
      [] rs = "card" /\ mode = "get" -> "get_card"
      [] rs = "checklist" /\ mode = "list" -> "get_card_checklists"
      [] rs \in {"checklist", "checklist_item"} /\ ReadResolver(rs, mode) = "checklist" ->
            IF r.hasObj THEN "none" ELSE "get_checklist"
      [] OTHER -> "none"

\* the session the branch has written when it starts to read the fields of
\* what the client method returned
ReadWritten(sess, rs, mode, r, got, switch_context) ==
    Switched(switch_context, sess,
    CASE rs = "board" /\ mode = "get" -> [sess EXCEPT !.board_id = r.id]
      [] rs = "list" /\ mode = "list" -> [sess EXCEPT !.board_id = r.id]
      [] rs = "list" /\ mode = "get" -> ListContextWritten(sess, r.id, got)
      [] rs = "card" /\ mode = "list" -> [sess EXCEPT !.list_id = r.id]
      [] rs = "card" /\ mode = "get" -> CardContextWritten(sess, got)
      [] OTHER -> sess)

\* a branch of trello_read_tool after its client method returned got (called:
\* it called one)
ReadDone(sess, rs, mode, r, r2, got, called, switch_context, orc) ==
    IF called /\ got.kind # "return" THEN CaughtAll(got, sess, r2, got)
    ELSE IF ReadResolver(rs, mode) = "checklist"
    THEN ChecklistRead(IF switch_context /\ rs = "checklist" /\ r.cardId # <<>>
                       THEN CardSynced(sess, r2, r.cardId, orc)
                       ELSE Handled(sess, "ok", r2, NoExc),
                       ~called \/ got.data.t = "dict")
    ELSE IF rs = "checklist" /\ switch_context THEN CardSynced(sess, r2, r.id, orc)
    ELSE IF mode = "get" /\ called
    THEN ObjectRead(ReadWritten(sess, rs, mode, r, got, switch_context), r2, got)
    ELSE Handled(ReadWritten(sess, rs, mode, r, got, switch_context), "ok", r2, NoExc)

\* a branch of trello_read_tool from what its resolver returned on
ReadResolved(sess, rs, mode, r, switch_context, orc) ==
    IF ReadResolver(rs, mode) # "none" /\ (~Resolved(r) \/ r.id = <<>>)
    THEN NotResolvedInTool(sess, r)
    ELSE IF ReadCall(rs, mode, r) = "none"
    THEN ReadDone(sess, rs, mode, r, r, NoExc, FALSE, switch_context, orc)
    ELSE Only({ ReadDone(sess, rs, mode, r, AndCall(r, ReadCall(rs, mode, r), r.id),
                         got, TRUE, switch_context, orc) :
                got \in { Gw(ReadCall(rs, mode, r), r.id, <<>>, r.calls, orc) } })

\* the branches of trello_read_tool inside its try statement: in mode list
\* the resolver is given the parent, in mode get the target and, for a card
\* or a checklist, the parent, for a checklist item the parent checklist
ReadBranch(sess, rs, mode, id_or_name, parent_resource, parent_id_or_name, switch_context, orc) ==
    IF ReadResolver(rs, mode) = "unsupported"
    THEN Handled(sess, "unsupported", NotResolved, NoExc)
    ELSE IF rs = "checklist_item" /\ mode = "list"
            /\ ParentRefIf(parent_resource, parent_id_or_name, "checklist") = <<>>
    THEN Handled(sess, "error", NotResolved, NoExc)
    ELSE Only({ ReadResolved(sess, rs, mode, r, switch_context, orc) :
                r \in { ResolveTarget(
                          ReadResolver(rs, mode), sess,
                          IF mode = "get" THEN id_or_name
                          ELSE ParentRefIf(parent_resource, parent_id_or_name,
                                           ReadResolver(rs, mode)),
                          ParentRefIf(parent_resource, parent_id_or_name, "checklist"),
                          <<>>,
                          IF mode = "get" /\ rs \in {"card", "checklist"}
                          THEN parent_resource ELSE "",
                          IF mode = "get" /\ rs \in {"card", "checklist"}
                          THEN parent_id_or_name ELSE <<>>,
                          orc) } })

\* TrelloPlugin.trello_read_tool.  limitIsNumber: int(limit or 20) succeeds;
\* it is evaluated before the try statement
ReadTool(sess, resource, mode, id_or_name, parent_resource, parent_id_or_name, limitIsNumber, switch_context, configured, orc) ==
    IF ~configured THEN Handled(sess, "no_credentials", NotResolved, NoExc)
    ELSE IF ~limitIsNumber THEN Handled(sess, "fault", NotResolved, NoExc)
    ELSE ReadBranch(sess, NormalizeResource(resource), mode, id_or_name,
                    parent_resource, parent_id_or_name, switch_context, orc)

\* the argument `fields`: hasName / name: the key "name" and its value;
\* hasOther: one of the keys desc, description, closed, due, checked;
\* parent: the value of board_id, list_id, card_id or checklist_id, the
\* parent of the resource written ("" where the key is absent); card_id: the
\* value of card_id for a checklist item
Fields(hasName, name, hasOther, parent, card_id) ==
    [hasName |-> hasName, name |-> name, hasOther |-> hasOther, parent |-> parent,
     card_id |-> card_id]

\* str(fields.get("name") or "").strip()
FieldName(fields) == IF fields.hasName THEN Strip(fields.name) ELSE <<>>

\* `params` of an update is not empty: board {name, desc, closed}, card
\* {name, desc, due, list_id, closed}, checklist_item {name, checked}
HasParams(rs, fields) ==
    fields.hasName \/ fields.hasOther \/ (rs = "card" /\ fields.parent # <<>>)

\* the parent of a create: parent_id_or_name if parent_resource names the
\* resource `wanted`, else the value of the key in fields
ParentOrField(parent_resource, parent_id_or_name, wanted, fields) ==
    IF NormalizeResource(parent_resource) = wanted THEN parent_id_or_name
    ELSE fields.parent

\* the resolver called by the branch (resource, action) of trello_write_tool:
\* a create resolves the parent, an update or a delete the target
WriteResolver(rs, action) ==
    CASE rs = "board" -> IF action = "create" THEN "none" ELSE "board"
      [] rs = "list" -> IF action = "create" THEN "board" ELSE "list"
      [] rs = "card" -> IF action = "create" THEN "list" ELSE "card"
      [] rs = "checklist" -> IF action = "create" THEN "card" ELSE "checklist"
      [] rs = "checklist_item" ->
            IF action = "create" THEN "checklist" ELSE "checklist_item"
      [] OTHER -> "unsupported"

\* the client method of the branch
WriteCall(rs, action) ==
    CASE rs = "board" -> IF action = "create" THEN "create_board"
                         ELSE IF action = "update" THEN "update_board"
                         ELSE "archive_board"
      [] rs = "list" -> IF action = "create" THEN "create_list"
                        ELSE IF action = "update" THEN "rename_list"
                        ELSE "archive_list"
      [] rs = "card" -> IF action = "create" THEN "create_card"
                        ELSE IF action = "update" THEN "update_card"
                        ELSE "delete_card"
      [] rs = "checklist" -> IF action = "create" THEN "create_checklist"
                             ELSE IF action = "update" THEN "update_checklist"
                             ELSE "delete_checklist"
      [] OTHER -> IF action = "create" THEN "add_check_item"
                  ELSE IF action = "update" THEN "update_check_item"
                  ELSE "delete_check_item"

\* the ID the client method is called on
WriteArg(rs, action, r) ==
    IF rs = "checklist_item" /\ action = "update" THEN r.cardId
    ELSE IF rs = "checklist_item" /\ action = "delete" THEN r.checklistId
    ELSE r.id

\* the branch reads fields of what the client method returned
ReadsResult(call) ==
    call \notin {"delete_card", "delete_checklist", "update_check_item",
                 "delete_check_item"}

\* an update returns for a missing field, after its target is resolved:
\* board and card need `params`, list and checklist a name, a checklist item
\* `params` and the ID of its card
UpdateInvalid(rs, fields, r) ==
    CASE rs \in {"board", "card"} -> ~HasParams(rs, fields)
      [] rs \in {"list", "checklist"} -> FieldName(fields) = <<>>
      [] OTHER -> ~HasParams(rs, fields) \/ r.cardId = <<>>

\* the session the branch has written when it starts to read the fields of
\* what the client method returned: str(x.get("id") or "") raises
\* AttributeError on a value that is no object
WriteWritten(sess, rs, action, r, got, switch_context) ==
    Switched(switch_context, sess,
    CASE rs = "board" /\ action = "create" ->
            IF got.data.t = "dict" THEN [sess EXCEPT !.board_id = got.data.obj.id]
            ELSE sess
      [] rs = "board" /\ action = "update" -> [sess EXCEPT !.board_id = r.id]
      [] rs = "list" /\ action = "create" ->
            IF got.data.t = "dict"
            THEN [sess EXCEPT !.board_id = r.id, !.list_id = got.data.obj.id]
            ELSE [sess EXCEPT !.board_id = r.id]
      [] rs = "list" /\ action = "update" -> [sess EXCEPT !.list_id = r.id]
      [] rs = "card" /\ action = "create" ->
            IF got.data.t = "dict"
            THEN [sess EXCEPT !.list_id = r.id, !.card_id = got.data.obj.id]
            ELSE [sess EXCEPT !.list_id = r.id]
      [] rs = "card" /\ action = "update" -> CardContextWritten(sess, got)
      [] OTHER -> sess)

\* a branch of trello_write_tool after its client method returned got
WriteDone(sess, rs, action, r, r2, got, switch_context, orc) ==
    IF got.kind # "return" THEN CaughtAll(got, sess, r2, got)
    ELSE IF rs = "checklist" /\ action = "create"
    THEN ChecklistRead(IF switch_context THEN CardSynced(sess, r2, r.id, orc)
                       ELSE Handled(sess, "ok", r2, NoExc),
                       got.data.t = "dict")
    ELSE IF ReadsResult(WriteCall(rs, action))
    THEN ObjectRead(WriteWritten(sess, rs, action, r, got, switch_context), r2, got)
    ELSE Handled(sess, "ok", r2, NoExc)

\* a return of trello_write_tool that names a missing field
MissingField(sess, r) == Handled(sess, "missing_field", r, NoExc)

\* a branch of trello_write_tool from what its resolver returned on
WriteResolved(sess, rs, action, r, fields, switch_context, orc) ==
    IF WriteResolver(rs, action) # "none" /\ (~Resolved(r) \/ r.id = <<>>)
    THEN NotResolvedInTool(sess, r)
    ELSE IF action = "update" /\ UpdateInvalid(rs, fields, r)
    THEN MissingField(sess, r)
    ELSE Only({ WriteDone(sess, rs, action, r,
                          AndCall(r, WriteCall(rs, action), WriteArg(rs, action, r)),
                          got, switch_context, orc) :
                got \in { Gw(WriteCall(rs, action), WriteArg(rs, action, r), <<>>,
                             r.calls, orc) } })

\* the branches of trello_write_tool by resource, after the checks of the
\* action and of confirm: a create checks the name and then resolves the
\* parent, without parent arguments; an update or a delete resolves the
\* target, a checklist item with fields.card_id and its parent checklist
WriteBranch(sess, rs, action, id_or_name, parent_resource, parent_id_or_name, fields, switch_context, orc) ==
    IF WriteResolver(rs, action) = "unsupported"
    THEN Handled(sess, "unsupported", NotResolved, NoExc)
    ELSE IF action = "create" /\ FieldName(fields) = <<>>
    THEN MissingField(sess, NotResolved)
    ELSE Only({ WriteResolved(sess, rs, action, r, fields, switch_context, orc) :
                r \in { ResolveTarget(
                          WriteResolver(rs, action), sess,
                          IF action = "create"
                          THEN ParentOrField(parent_resource, parent_id_or_name,
                                             WriteResolver(rs, action), fields)
                          ELSE id_or_name,
                          ParentOrField(parent_resource, parent_id_or_name,
                                        "checklist", fields),
                          IF rs = "checklist_item" THEN fields.card_id ELSE <<>>,
                          IF action = "create" THEN "" ELSE parent_resource,
                          IF action = "create" THEN <<>> ELSE parent_id_or_name,
                          orc) } })

\* confirm is never asked for
ConfirmNeverMissing(action, confirm) == FALSE

\* `if action == "delete" and not confirm`
ConfirmMissing(action, confirm) == action = "delete" /\ ~confirm

\* TrelloPlugin.trello_write_tool
WriteTool(sess, resource, action, id_or_name, parent_resource, parent_id_or_name, fields, confirm, switch_context, configured, orc) ==
    IF ~configured THEN Handled(sess, "no_credentials", NotResolved, NoExc)
    ELSE IF action \notin {"create", "update", "delete"}
    THEN Handled(sess, "unsupported", NotResolved, NoExc)
    ELSE IF ConfirmMissing(action, confirm)
    THEN Handled(sess, "confirm_required", NotResolved, NoExc)
    ELSE WriteBranch(sess, NormalizeResource(resource), action, id_or_name,
                     parent_resource, parent_id_or_name, fields, switch_context, orc)

(***************************************************************************)
(* The name matcher applied to bounded inputs                              *)
(***************************************************************************)
\* the longest item sequence handed to the matcher
MaxItems == 6

\* "", "Ab", " ab ", "abc"
MatchNames == { <<>>, <<"A","b">>, <<" ","a","b"," ">>, <<"a","b","c">> }

\* "", " AB ", "b"
MatchQueries == { <<>>, <<" ">>, <<" ","A","B"," ">>, <<"b">> }

\* the i-th item of a drawn sequence has the id "i<i>"
ItemsOf(names) ==
    [i \in 1..Len(names) |-> Object(<<"i", DigitChars[i + 1]>>, names[i])]

NameSeqs == UNION { [1..n -> MatchNames] : n \in 0..MaxItems }

Pending == [item |-> NoItem, found |-> FALSE, err |-> NoError, done |-> FALSE]

IdleResp == [transport |-> "idle", status |-> 0, emptyBody |-> FALSE,
             parse |-> "json", body |-> <<>>, json |-> JScalar]
IdleOutcome == [call |-> "none", kind |-> "idle", tag |-> "none", status |-> 0,
                body |-> <<>>, list |-> <<>>, data |-> JScalar]
\* no handler is in flight
NoneRunning == <<>>
IdleSession == [board_id |-> <<>>, list_id |-> <<>>, card_id |-> <<>>,
                done_list_id |-> <<>>]
\* the record of a resolver call or a handler invocation: its arguments, the
\* odd answer placed in it, the resolver's result, what get_card returned or
\* raised if the handler called it, the message the handler returned and the
\* session it started from
\* the further arguments of a tool invocation: mode or action, fields,
\* confirm, switch_context, and whether limit is a number
Opts(mode, fields, confirm, switch_context, limitIsNumber) ==
    [mode |-> mode, fields |-> fields, confirm |-> confirm,
     switch_context |-> switch_context, limitIsNumber |-> limitIsNumber]
NoOpts == Opts("", Fields(FALSE, <<>>, FALSE, <<>>, <<>>), FALSE, TRUE, TRUE)

Last(op, resource, ref, cardRef, checklistRef, parentResource, parentRef, orc, res, fetched, msg, before) ==
    [op |-> op, resource |-> resource, ref |-> ref, cardRef |-> cardRef,
     checklistRef |-> checklistRef, parentResource |-> parentResource,
     parentRef |-> parentRef, orc |-> orc, res |-> res, fetched |-> fetched,
     msg |-> msg, before |-> before, opts |-> NoOpts]
IdleLast == Last("idle", "", <<>>, <<>>, <<>>, "", <<>>, NoOdd,
                 RErr(Err("none"), <<>>, "none"), NoExc, "none", IdleSession)

MatchInit ==
    /\ http = NoHttp
    /\ running = NoneRunning
    /\ items \in { ItemsOf(n) : n \in NameSeqs }
    /\ query \in MatchQueries
    /\ matched = Pending
    /\ resp = IdleResp
    /\ outcome = IdleOutcome
    /\ session = IdleSession
    /\ last = IdleLast

\* one call of _match_named_item(items, query)
Match ==
    /\ ~matched.done
    /\ matched' = LET r == MatchNamedItem(items, query)
                   IN  [item |-> r.item, found |-> r.found, err |-> r.err,
                        done |-> TRUE]
    /\ UNCHANGED <<running, http, items, query, resp, outcome, session, last>>

MatchNext == Match

SpecMatch == MatchInit /\ [][MatchNext]_vars

(***************************************************************************)
(* The name matcher applied to a few items                                 *)
(***************************************************************************)
\* item sequences of up to MaxFew items: enough for none, one and several
\* items to contain the query
MaxFew == 3

FewInit ==
    /\ http = NoHttp
    /\ running = NoneRunning
    /\ items \in { ItemsOf(n) : n \in UNION { [1..k -> MatchNames] : k \in 0..MaxFew } }
    /\ query \in MatchQueries
    /\ matched = Pending
    /\ resp = IdleResp
    /\ outcome = IdleOutcome
    /\ session = IdleSession
    /\ last = IdleLast

SpecMatchFew == FewInit /\ [][MatchNext]_vars

(***************************************************************************)
(* The gateway applied to bounded remote answers                           *)
(***************************************************************************)
\* the longest list in a remote answer
MaxElems == 3

Bodies == { BodyOf(0), BodyOf(BodyLimit - 1), BodyOf(BodyLimit),
            BodyOf(BodyLimit + 1) }

\* the element at position i of a remote list: an open, a closed or an
\* unmarked object, or something that is no object
ElemsAt(i) ==
    LET o == Object(<<"e", DigitChars[i + 1]>>, <<"n", DigitChars[i + 1]>>)
    IN  { [o EXCEPT !.closed = "false"], [o EXCEPT !.closed = "true"], o,
          [o EXCEPT !.isObj = FALSE] }

ElemSeqs ==
    UNION { { f \in [1..n -> UNION { ElemsAt(i) : i \in 1..n }] :
                \A i \in 1..n : f[i] \in ElemsAt(i) } : n \in 0..MaxElems }

JsonValues ==
    { JList(e) : e \in ElemSeqs }
    \cup { JDict([Object(<<"o","1">>, <<"n">>) EXCEPT !.closed = c], "list", e) :
             c \in {"true", "absent"}, e \in ElemSeqs }
    \cup { JDict([Object(<<"o","1">>, <<"n">>) EXCEPT !.closed = c], k, <<>>) :
             c \in {"true", "absent"}, k \in {"absent", "scalar"} }
    \cup { JScalar }

SuccessStatuses == { 200, StatusErrorFrom - 1 }
ErrorStatuses == { StatusErrorFrom, StatusUnauthorized, StatusForbidden, 404, 500 }

Answers ==
    { Answer(t, 0, FALSE, "json", <<>>, JScalar) : t \in {"client_error", "timeout"} }
    \cup { Answer("ok", st, b = <<>>, "json", b, JScalar) :
             st \in ErrorStatuses, b \in Bodies }
    \cup { Answer("ok", st, TRUE, pz, <<>>, JScalar) :
             st \in SuccessStatuses,
             pz \in {"json", "content_type_error", "decode_error"} }
    \cup { Answer("ok", st, FALSE, pz, BodyOf(3), JScalar) :
             st \in SuccessStatuses, pz \in {"content_type_error", "decode_error"} }
    \cup { Answer("ok", st, FALSE, "json", BodyOf(3), j) :
             st \in SuccessStatuses, j \in JsonValues }

ClientInit ==
    /\ resp \in Answers
    /\ outcome = IdleOutcome
    /\ http = NoHttp
    /\ running = NoneRunning
    /\ items = <<>>
    /\ query = <<>>
    /\ matched = Pending
    /\ session = IdleSession
    /\ last = IdleLast

\* the outcome of the client method `call` on the remote's answer r
OutcomeOf(call, r) ==
    LET o == ClientCall(call, r)
    IN  [call |-> call, kind |-> o.kind, tag |-> o.tag, status |-> o.status,
         body |-> o.body, list |-> o.list, data |-> o.data]

\* the outcome of the client method `call` on the remote's answer
Outcome(call) == OutcomeOf(call, resp)

\* get_boards, get_lists or get_list_cards is called
CallFilteredList ==
    /\ outcome.kind = "idle"
    /\ \E call \in FilteredListCalls : outcome' = Outcome(call)
    /\ UNCHANGED <<running, http, items, query, matched, resp, session, last>>

\* get_card_checklists is called
CallChecklists ==
    /\ outcome.kind = "idle"
    /\ outcome' = Outcome("get_card_checklists")
    /\ UNCHANGED <<running, http, items, query, matched, resp, session, last>>

\* search_cards is called
CallSearch ==
    /\ outcome.kind = "idle"
    /\ outcome' = Outcome("search_cards")
    /\ UNCHANGED <<running, http, items, query, matched, resp, session, last>>

\* a call that returns what _request returns is called
CallSingle ==
    /\ outcome.kind = "idle"
    /\ \E call \in SingleCalls : outcome' = Outcome(call)
    /\ UNCHANGED <<running, http, items, query, matched, resp, session, last>>

ClientNext == CallFilteredList \/ CallChecklists \/ CallSearch \/ CallSingle

SpecClient == ClientInit /\ [][ClientNext]_vars

(***************************************************************************)
(* The client's HTTP session over bounded sequences of calls               *)
(***************************************************************************)
\* the number of calls (requests and close) made on one client
MaxCalls == 5

\* the client as constructed (no session), and with a session put into
\* client._session, open or already closed, as the tests do
HttpInits ==
    { NoHttp,
      HttpState(<<"open">>, 1, 0, <<>>, [sessions |-> <<"open">>, cur |-> 1]),
      HttpState(<<"closed">>, 1, 0, <<>>, [sessions |-> <<"closed">>, cur |-> 1]) }

LifecycleInit ==
    /\ http \in HttpInits
    /\ running = NoneRunning
    /\ items = <<>>
    /\ query = <<>>
    /\ matched = Pending
    /\ resp = IdleResp
    /\ outcome = IdleOutcome
    /\ session = IdleSession
    /\ last = IdleLast

\* one _request: _get_session, then the request through the session; the
\* remote answers r
HttpRequest ==
    /\ Len(http.log) < MaxCalls
    /\ \E r \in { OkAnswer(JEmpty), NotFoundAnswer,
                  Answer("timeout", 0, FALSE, "json", <<>>, JScalar) } :
          \E g \in { GetSession(http) } :
             /\ http' = HttpState(g.sessions, g.cur, g.cur,
                                  Append(http.log, "request"),
                                  [sessions |-> http.sessions, cur |-> http.cur])
             /\ resp' = r
             /\ outcome' = OutcomeOf("get_board", r)
    /\ UNCHANGED <<running, items, query, matched, session, last>>

\* TrelloClient.close
HttpClose ==
    /\ Len(http.log) < MaxCalls
    /\ \E c \in { CloseSession(http) } :
          http' = HttpState(c.sessions, c.cur, 0, Append(http.log, "close"),
                            [sessions |-> http.sessions, cur |-> http.cur])
    /\ UNCHANGED <<running, items, query, matched, resp, outcome, session, last>>

LifecycleNext == HttpRequest \/ HttpClose

SpecLifecycle == LifecycleInit /\ [][LifecycleNext]_vars

(***************************************************************************)
(* The resolvers applied to bounded references and sessions                *)
(***************************************************************************)
Session(board, list, card) ==
    [board_id |-> board, list_id |-> list, card_id |-> card, done_list_id |-> <<>>]

\* the sessions a resolver is called in: each of board, list and card selected
\* or not
Sessions ==
    { Session(b, l, c) : b \in {<<>>, IdB1}, l \in {<<>>, IdL1}, c \in {<<>>, IdC1} }

\* a reference with a blank before and after it
Padded(ref) == <<" ">> \o ref \o <<" ">>

\* references that are no names: nothing, blanks, IDs (known to the remote or
\* not, bare or padded) and near-IDs (23 or 25 hexadecimal characters, 24
\* characters one of which is no hexadecimal digit)
ShapedRefs(known) ==
    { <<>>, <<" ">>, known, IdX, Padded(known), Padded(IdX),
      SubSeq(IdX, 1, IdLen - 1), IdX \o <<"0">>, <<"g">> \o SubSeq(IdX, 1, IdLen - 1) }

BoardRefs == ShapedRefs(IdB1) \cup { <<"d","e","s","i","g","n">>, <<"d","e","s">> }
ListRefs == ShapedRefs(IdL1) \cup { <<"t","o","d","o">>, <<"d","o">> }
CardRefs == ShapedRefs(IdC1) \cup { <<"f","i","x">>, <<"d","o","c","s">>, <<"f","i">> }
ChecklistRefs == ShapedRefs(IdK1) \cup { <<"q","a">>, <<"f","i","n">> }
ItemRefs == ShapedRefs(IdE1) \cup { <<"r","u","n">>, <<"l","i","n","t">> }

\* (parent_resource, parent_id_or_name) of a card reference
CardParents ==
    { <<"", <<>>>>, <<"list", IdL2>>, <<"lists", <<"t","o","d","o">>>>,
      <<"board", IdB1>>, <<"board", <<"d","e","s","i","g","n">>>>, <<"list", <<>>>> }

\* (card_ref, parent_resource, parent_id_or_name) of a checklist reference
ChecklistContexts ==
    { <<<<>>, "", <<>>>>, <<IdC1, "", <<>>>>, <<<<"f","i","x">>, "", <<>>>>,
      <<<<" ">>, "", <<>>>>, <<<<>>, "card", IdC1>>, <<<<>>, "card", <<>>>>,
      <<<<>>, "board", IdB1>> }

\* (checklist_ref, card_ref, parent_resource, parent_id_or_name) of a checklist
\* item reference
ItemContexts ==
    { <<<<>>, <<>>, "", <<>>>>, <<IdK1, <<>>, "", <<>>>>, <<IdK1, IdC1, "", <<>>>>,
      <<<<"q","a">>, IdC1, "", <<>>>>, <<<<>>, <<>>, "checklist", IdK1>>,
      <<<<>>, IdC1, "checklist", <<"q","a">>>>, <<<<>>, <<>>, "checklist", IdX>> }

ResolveInit ==
    /\ session \in Sessions
    /\ last = IdleLast
    /\ http = NoHttp
    /\ running = NoneRunning
    /\ items = <<>>
    /\ query = <<>>
    /\ matched = Pending
    /\ resp = IdleResp
    /\ outcome = IdleOutcome

\* _resolve_board_ref is called
ResolveBoard ==
    /\ last.op = "idle"
    /\ \E ref \in BoardRefs, orc \in Oracles :
          last' = Last("resolve", "board", ref, <<>>, <<>>, "", <<>>, orc,
                       ResolveBoardRef(session, ref, <<>>, orc), NoExc, "none", session)
    /\ UNCHANGED <<running, http, items, query, matched, resp, outcome, session>>

\* _resolve_list_ref is called
ResolveList ==
    /\ last.op = "idle"
    /\ \E ref \in ListRefs, orc \in Oracles :
          last' = Last("resolve", "list", ref, <<>>, <<>>, "", <<>>, orc,
                       ResolveListRef(session, ref, <<>>, orc), NoExc, "none", session)
    /\ UNCHANGED <<running, http, items, query, matched, resp, outcome, session>>

\* _resolve_card_with_optional_parent is called (without a parent it is
\* _resolve_card_ref)
ResolveCard ==
    /\ last.op = "idle"
    /\ \E ref \in CardRefs, par \in CardParents, orc \in Oracles :
          last' = Last("resolve", "card", ref, <<>>, <<>>, par[1], par[2], orc,
                       ResolveCardWithParent(session, ref, par[1], par[2], <<>>, orc),
                       NoExc, "none", session)
    /\ UNCHANGED <<running, http, items, query, matched, resp, outcome, session>>

\* _resolve_checklist_ref is called
ResolveChecklist ==
    /\ last.op = "idle"
    /\ \E ref \in ChecklistRefs, ctx \in ChecklistContexts, orc \in Oracles :
          last' = Last("resolve", "checklist", ref, ctx[1], <<>>, ctx[2], ctx[3], orc,
                       ResolveChecklistRef(session, ref, ctx[1], ctx[2], ctx[3],
                                           <<>>, orc),
                       NoExc, "none", session)
    /\ UNCHANGED <<running, http, items, query, matched, resp, outcome, session>>

\* _resolve_checklist_item_ref is called
ResolveChecklistItem ==
    /\ last.op = "idle"
    /\ \E ref \in ItemRefs, ctx \in ItemContexts, orc \in Oracles :
          last' = Last("resolve", "checklist_item", ref, ctx[2], ctx[1], ctx[3],
                       ctx[4], orc,
                       ResolveChecklistItemRef(session, ref, ctx[1], ctx[2], ctx[3],
                                               ctx[4], <<>>, orc),
                       NoExc, "none", session)
    /\ UNCHANGED <<running, http, items, query, matched, resp, outcome, session>>

ResolveNext ==
    ResolveBoard \/ ResolveList \/ ResolveCard \/ ResolveChecklist
    \/ ResolveChecklistItem

SpecResolve == ResolveInit /\ [][ResolveNext]_vars

(***************************************************************************)
(* The selection handlers applied to bounded references and sessions       *)
(***************************************************************************)
\* whether trello_api_key and trello_token are configured
Configured == BOOLEAN

\* (resource, id_or_name, parent_resource, parent_id_or_name) of trello_select
SelectInputs ==
    { <<rs, ref, "", <<>>>> : rs \in {"board", "boards"}, ref \in BoardRefs }
    \cup { <<"list", ref, "", <<>>>> : ref \in ListRefs }
    \cup { <<"card", ref, par[1], par[2]>> : ref \in CardRefs, par \in CardParents }
    \cup { <<"checklist", ref, par[1], par[2]>> :
             ref \in ChecklistRefs,
             par \in { <<"", <<>>>>, <<"card", IdC1>>, <<"card", <<"f","i","x">>>>,
                       <<"card", <<>>>>, <<"list", IdL1>> } }
    \cup { <<"label", IdX, "", <<>>>> }

\* the sessions a selection is made in: those of the resolvers, and one with
\* a done list set as well
SelectSessions ==
    Sessions \cup { [Session(IdB1, IdL1, IdC1) EXCEPT !.done_list_id = IdL2] }

SelectInit ==
    /\ session \in SelectSessions
    /\ last = IdleLast
    /\ http = NoHttp
    /\ running = NoneRunning
    /\ items = <<>>
    /\ query = <<>>
    /\ matched = Pending
    /\ resp = IdleResp
    /\ outcome = IdleOutcome

\* the handler's result h becomes the state
Becomes(op, resource, ref, parentResource, parentRef, orc, h) ==
    /\ session' = h.session
    /\ last' = Last(op, resource, ref, <<>>, <<>>, parentResource, parentRef, orc,
                    h.res, h.fetched, h.msg, session)

\* /trello use-board <board_id|name>
UseBoard ==
    /\ last.op = "idle"
    /\ \E ref \in BoardRefs, configured \in Configured, orc \in Oracles :
          \E h \in { UseBoardCommand(session, ref, configured, orc) } :
             Becomes("use_board", "board", ref, "", <<>>, orc, h)
    /\ UNCHANGED <<running, http, items, query, matched, resp, outcome>>

\* /trello use-list <list_id|name>
UseList ==
    /\ last.op = "idle"
    /\ \E ref \in ListRefs, configured \in Configured, orc \in Oracles :
          \E h \in { UseListCommand(session, ref, configured, orc) } :
             Becomes("use_list", "list", ref, "", <<>>, orc, h)
    /\ UNCHANGED <<running, http, items, query, matched, resp, outcome>>

\* /trello use-done <list_id>
UseDone ==
    /\ last.op = "idle"
    /\ \E ref \in ListRefs :
          \E h \in { UseDoneCommand(session, ref) } :
             Becomes("use_done", "list", ref, "", <<>>, NoOdd, h)
    /\ UNCHANGED <<running, http, items, query, matched, resp, outcome>>

\* the LLM tool trello_select is invoked
Select ==
    /\ last.op = "idle"
    /\ \E in \in SelectInputs, configured \in Configured, orc \in Oracles :
          \E h \in { SelectTool(session, in[1], in[2], in[3], in[4], configured, orc) } :
             Becomes("select", NormalizeResource(in[1]), in[2], in[3], in[4], orc, h)
    /\ UNCHANGED <<running, http, items, query, matched, resp, outcome>>

SelectNext == UseBoard \/ UseList \/ UseDone \/ Select

SpecSelect == SelectInit /\ [][SelectNext]_vars

(***************************************************************************)
(* The read and write tools and two commands applied to bounded arguments *)
(***************************************************************************)
\* the sessions a tool or a command is invoked in: nothing selected, a
\* board, a board and a list, a board, a list and a card
ToolSessions ==
    { Session(<<>>, <<>>, <<>>), Session(IdB1, <<>>, <<>>),
      Session(IdB1, IdL1, <<>>), Session(IdB1, IdL1, IdC1) }

\* (resource, id_or_name, parent_resource, parent_id_or_name) of an
\* invocation of the read tool
ReadTargets ==
    { <<"board", <<>>, "", <<>>>>, <<"board", IdB1, "", <<>>>>,
      <<"boards", <<"d","e","s","i","g","n">>, "", <<>>>>,
      <<"list", IdL1, "", <<>>>>, <<"list", <<"t","o","d","o">>, "", <<>>>>,
      <<"list", IdL1, "board", IdB2>>, <<"list", <<"t","o","d","o">>, "board", IdB2>>,
      <<"lists", <<>>, "boards", <<"d","e","s","i","g","n">>>>,
      <<"card", <<>>, "", <<>>>>, <<"card", IdC1, "", <<>>>>,
      <<"card", <<"f","i","x">>, "", <<>>>>, <<"cards", <<"f","i">>, "list", IdL2>>,
      <<"card", <<"f","i","x">>, "board", IdB1>>,
      <<"checklist", <<>>, "", <<>>>>, <<"checklist", IdK1, "", <<>>>>,
      <<"checklist", <<"q","a">>, "card", IdC1>>,
      <<"checklists", <<"q","a">>, "card", <<"f","i","x">>>>,
      <<"items", IdE1, "", <<>>>>, <<"items", <<"r","u","n">>, "checklist", IdK1>>,
      <<"checklist_item", <<"r","u","n">>, "checklist", <<"q","a">>>>,
      <<"label", IdX, "", <<>>>> }

\* (resource, id_or_name, parent_resource, parent_id_or_name) of an
\* invocation of the write tool
WriteTargets ==
    { <<"boards", <<>>, "", <<>>>>, <<"board", IdB1, "", <<>>>>,
      <<"board", <<"d","e","s","i","g","n">>, "", <<>>>>,
      <<"list", IdL1, "", <<>>>>, <<"list", <<"t","o","d","o">>, "", <<>>>>,
      <<"list", <<>>, "board", IdB2>>,
      <<"card", IdC1, "", <<>>>>, <<"card", <<"f","i","x">>, "", <<>>>>,
      <<"card", <<"d","o","c","s">>, "list", IdL2>>,
      <<"checklist", IdK1, "", <<>>>>, <<"checklist", <<"q","a">>, "card", IdC1>>,
      <<"items", IdE1, "", <<>>>>, <<"items", <<"r","u","n">>, "checklist", IdK1>>,
      <<"label", IdX, "", <<>>>> }

\* the ID of a parent of the resource, as a value of fields
ParentField(resource) ==
    CASE NormalizeResource(resource) = "list" -> IdB1
      [] NormalizeResource(resource) = "card" -> IdL1
      [] NormalizeResource(resource) = "checklist" -> IdC1
      [] NormalizeResource(resource) = "checklist_item" -> IdK1
      [] OTHER -> <<>>

NoFields == Fields(FALSE, <<>>, FALSE, <<>>, <<>>)
NameField == Fields(TRUE, NameNew, FALSE, <<>>, <<>>)
BlankNameField == Fields(TRUE, <<" ">>, FALSE, <<>>, <<>>)
OtherField == Fields(FALSE, <<>>, TRUE, <<>>, <<>>)

\* (action, fields, confirm) of an invocation of the write tool on resource
Mutations(resource) ==
    { <<"create", f, FALSE>> :
        f \in { BlankNameField, NameField,
                [NameField EXCEPT !.parent = ParentField(resource)] } }
    \cup { <<"update", f, FALSE>> : f \in { NoFields, NameField, OtherField } }
    \cup { <<"delete", NoFields, c>> : c \in BOOLEAN }
    \cup { <<"purge", NoFields, TRUE>> }

ReadModes == {"list", "get", "watch"}

\* the handler's result h of a tool invocation becomes the state
ToolBecomes(op, in, opts, orc, h) ==
    /\ session' = h.session
    /\ last' = [Last(op, NormalizeResource(in[1]), in[2], <<>>, <<>>, in[3], in[4],
                     orc, h.res, h.fetched, h.msg, session) EXCEPT !.opts = opts]

\* the LLM tool trello_read is invoked
Read ==
    /\ last.op = "idle"
    /\ \E in \in ReadTargets, mode \in ReadModes, limitIsNumber \in BOOLEAN,
          switch_context \in BOOLEAN, configured \in Configured :
          \E orc \in IF configured /\ limitIsNumber THEN Oracles ELSE {NoOdd} :
             \E h \in { ReadTool(session, in[1], mode, in[2], in[3], in[4],
                                 limitIsNumber, switch_context, configured, orc) } :
                ToolBecomes("read", in,
                            Opts(mode, NoFields, FALSE, switch_context, limitIsNumber),
                            orc, h)
    /\ UNCHANGED <<running, http, items, query, matched, resp, outcome>>

\* the LLM tool trello_write is invoked
Write ==
    /\ last.op = "idle"
    /\ \E in \in WriteTargets, switch_context \in BOOLEAN,
          configured \in Configured :
          \E mu \in Mutations(in[1]), orc \in IF configured THEN Oracles ELSE {NoOdd} :
             \E h \in { WriteTool(session, in[1], mu[1], in[2], in[3], in[4], mu[2],
                                  mu[3], switch_context, configured, orc) } :
                ToolBecomes("write", in,
                            Opts(mu[1], mu[2], mu[3], switch_context, TRUE), orc, h)
    /\ UNCHANGED <<running, http, items, query, matched, resp, outcome>>

\* /trello board-info [board_id|name]
BoardInfo ==
    /\ last.op = "idle"
    /\ \E ref \in BoardRefs, configured \in Configured, orc \in Oracles :
          \E h \in { BoardInfoCommand(session, ref, configured, orc) } :
             Becomes("board_info", "board", ref, "", <<>>, orc, h)
    /\ UNCHANGED <<running, http, items, query, matched, resp, outcome>>

\* /trello card [card_id|name]
CardInfo ==
    /\ last.op = "idle"
    /\ \E ref \in CardRefs, configured \in Configured, orc \in Oracles :
          \E h \in { CardCommand(session, ref, configured, orc) } :
             Becomes("card", "card", ref, "", <<>>, orc, h)
    /\ UNCHANGED <<running, http, items, query, matched, resp, outcome>>

ToolsInit ==
    /\ session \in ToolSessions
    /\ last = IdleLast
    /\ http = NoHttp
    /\ running = NoneRunning
    /\ items = <<>>
    /\ query = <<>>
    /\ matched = Pending
    /\ resp = IdleResp
    /\ outcome = IdleOutcome

ToolsNext == Read \/ Write \/ BoardInfo \/ CardInfo

SpecTools == ToolsInit /\ [][ToolsNext]_vars

(***************************************************************************)
(* The context synchronisation applied to bounded sessions and card objects *)
(***************************************************************************)
\* the sessions a card is synchronised into: each of the four fields set or
\* not
SyncSessions ==
    { [Session(b, l, c) EXCEPT !.done_list_id = d] :
        b \in {<<>>, IdB1}, l \in {<<>>, IdL1}, c \in {<<>>, IdC1},
        d \in {<<>>, IdL2} }

\* the card objects: each of id, idBoard and idList present or not
SyncCards ==
    { Card(id, <<>>, b, l, "absent") :
        id \in {<<>>, IdC3}, b \in {<<>>, IdB2}, l \in {<<>>, IdL2} }

SyncInit ==
    /\ session \in SyncSessions
    /\ last \in { [IdleLast EXCEPT !.fetched = Returned(JDict(c, "absent", <<>>))] :
                  c \in SyncCards }
    /\ http = NoHttp
    /\ running = NoneRunning
    /\ items = <<>>
    /\ query = <<>>
    /\ matched = Pending
    /\ resp = IdleResp
    /\ outcome = IdleOutcome

\* one call of _sync_context_from_card(event, card)
SyncContext ==
    /\ last.op = "idle"
    /\ session' = SyncContextFromCard(session, last.fetched.data.obj)
    /\ last' = [last EXCEPT !.op = "sync", !.before = session]
    /\ UNCHANGED <<running, http, items, query, matched, resp, outcome>>

SyncNext == SyncContext

SpecSync == SyncInit /\ [][SyncNext]_vars

(***************************************************************************)
(* Two selections in flight in one conversation                            *)
(***************************************************************************)
\* one awaited put_kv_data(session key, value)
Put(key, value) == [key |-> key, value |-> value]

\* the session after the put w
Written(sess, w) == [sess EXCEPT ![w.key] = w.value]

\* _sync_context_from_card(card) as the puts it awaits, in their order
SyncPuts(card) ==
    (IF card.idBoard # <<>> THEN <<Put("board_id", card.idBoard)>> ELSE <<>>)
    \o (IF card.idList # <<>> THEN <<Put("list_id", card.idList)>> ELSE <<>>)
    \o (IF card.id # <<>> THEN <<Put("card_id", card.id)>> ELSE <<>>)

\* the puts of a board selection and of a list selection: _set_current_board
\* or _set_current_list, then card_id is cleared
BoardPuts(board_id) == <<Put("board_id", board_id), Put("card_id", <<>>)>>
ListPuts(list_id) == <<Put("list_id", list_id), Put("card_id", <<>>)>>

\* the session after the puts of a handler that runs alone
RECURSIVE AllWritten(_, _)
AllWritten(sess, puts) ==
    IF puts = <<>> THEN sess ELSE AllWritten(Written(sess, Head(puts)), Tail(puts))

\* a handler in flight: pc = 0 while it awaits its gateway calls, pc = k while
\* its k-th put is the next, pc > Len(puts) when it has returned
InFlight(name, puts) == [name |-> name, puts |-> puts, pc |-> 0]
Finished(h) == h.pc > Len(h.puts)

\* the handlers of a conversation run one after the other: a handler takes a
\* step only while the other has not started or has returned
CanRunSerialised(p, run) ==
    /\ ~Finished(run[p])
    /\ \A q \in 1..Len(run) : q # p => (run[q].pc = 0 \/ Finished(run[q]))

\* the handler p of run can take its next step: the handlers take no lock
\* and each await lets the other handler of the conversation run
CanRun(p, run) == ~Finished(run[p])

\* the selections dispatched together: a card selection (trello_select card,
\* its card fetched) with another selection of a board, a list or a card
CardSelections == { InFlight("select_card", SyncPuts(c)) : c \in { WorldCards[1], WorldCards[3] } }
OtherSelections ==
    { InFlight("select_board", BoardPuts(b)) : b \in {IdB1, IdB2} }
    \cup { InFlight("select_list", ListPuts(IdL2)),
           InFlight("select_card", SyncPuts(WorldCards[2])) }

RaceInit ==
    /\ session \in Sessions
    /\ running \in { <<a, b>> : a \in CardSelections, b \in OtherSelections }
    /\ last = [IdleLast EXCEPT !.op = "race", !.before = session]
    /\ http = NoHttp
    /\ items = <<>>
    /\ query = <<>>
    /\ matched = Pending
    /\ resp = IdleResp
    /\ outcome = IdleOutcome

\* the gateway calls the handler p awaits have returned
GatewayReturnsTo(p) ==
    /\ CanRun(p, running)
    /\ running[p].pc = 0
    /\ running' = [running EXCEPT ![p].pc = 1]
    /\ UNCHANGED <<session, last, http, items, query, matched, resp, outcome>>

\* the handler p does its next put_kv_data
SessionPutBy(p) ==
    /\ CanRun(p, running)
    /\ running[p].pc >= 1
    /\ session' = Written(session, running[p].puts[running[p].pc])
    /\ running' = [running EXCEPT ![p].pc = @ + 1]
    /\ UNCHANGED <<last, http, items, query, matched, resp, outcome>>

\* the next step of the handler p
HandlerStep(p) == GatewayReturnsTo(p) \/ SessionPutBy(p)

GatewayReturns == \E p \in 1..2 : GatewayReturnsTo(p)
SessionPut == \E p \in 1..2 : SessionPutBy(p)

RaceNext == GatewayReturns \/ SessionPut

SpecRace == RaceInit /\ [][RaceNext]_vars

(***************************************************************************)
(* Properties of the name matcher                                          *)
(***************************************************************************)
\* the positions of the items whose trimmed, case-folded name equals the
\* trimmed, case-folded query
ExactAt == { i \in 1..Len(items) :
               Casefold(Strip(items[i].name)) = Casefold(Strip(query)) }

\* the positions of the items whose trimmed, case-folded name contains the
\* trimmed, case-folded query
PartialAt == { i \in 1..Len(items) :
                 Contains(Casefold(Strip(items[i].name)), Casefold(Strip(query))) }

\* the k-th smallest position of a set of positions
NthOf(S, k) == CHOOSE i \in S : Cardinality({ j \in S : j < i }) = k - 1

\* the positions of the phase that is ambiguous
AmbiguousAt == IF Cardinality(ExactAt) >= 2 THEN ExactAt ELSE PartialAt

\* "name (id)" of the item at position i
ShownAs(i) == items[i].name \o <<" ", "(">> \o items[i].id \o <<")">>

\* C1 as stated: for every query, if exactly one item's trimmed, case-folded
\* name equals the trimmed, case-folded query, that item is returned with no
\* error.
C1_ExactWinsEveryQuery ==
    (matched.done /\ Cardinality(ExactAt) = 1)
        => /\ matched.found
           /\ matched.err.kind = "none"
           /\ \A i \in ExactAt : matched.item = items[i]

\* C1 as amended: for every query that is not empty after trimming, if exactly
\* one item's trimmed, case-folded name equals the trimmed, case-folded query,
\* that item is returned with no error, also when other items contain the query.
C1_ExactWins ==
    (matched.done /\ Strip(query) # <<>> /\ Cardinality(ExactAt) = 1)
        => /\ matched.found
           /\ matched.err.kind = "none"
           /\ \A i \in ExactAt : matched.item = items[i]

\* a single exact match among several items that contain the query was returned
C1_Witness ==
    /\ matched.done
    /\ Strip(query) # <<>>
    /\ Cardinality(ExactAt) = 1
    /\ Cardinality(PartialAt) >= 3
    /\ matched.found
    /\ \E i \in ExactAt : i > 1 /\ matched.item = items[i]

\* C2 as stated: two or more exact matches, or no exact match and two or more
\* substring matches, give no item and an ambiguity error listing at most 5
\* candidates "name (id)" in input order from the ambiguous phase's subset.
C2_AmbiguousEveryQuery ==
    (/\ matched.done
     /\ \/ Cardinality(ExactAt) >= 2
        \/ Cardinality(ExactAt) = 0 /\ Cardinality(PartialAt) >= 2)
        => /\ ~matched.found
           /\ matched.err.kind = "ambiguous"
           /\ Len(matched.err.cands) <= 5
           /\ Len(matched.err.cands) <= Cardinality(AmbiguousAt)
           /\ Len(matched.err.cands) >= 5 \/
                  Len(matched.err.cands) = Cardinality(AmbiguousAt)
           /\ \A k \in 1..Len(matched.err.cands) :
                  matched.err.cands[k] = ShownAs(NthOf(AmbiguousAt, k))

\* C2 as amended: the same, for every query that is not empty after trimming
\* (an empty query gives the empty-query error whatever the items).
C2_Ambiguous ==
    (/\ matched.done
     /\ Strip(query) # <<>>
     /\ \/ Cardinality(ExactAt) >= 2
        \/ Cardinality(ExactAt) = 0 /\ Cardinality(PartialAt) >= 2)
        => /\ ~matched.found
           /\ matched.item = NoItem
           /\ matched.err.kind = "ambiguous"
           /\ Len(matched.err.cands) <= 5
           /\ Len(matched.err.cands) <= Cardinality(AmbiguousAt)
           /\ Len(matched.err.cands) >= 5 \/
                  Len(matched.err.cands) = Cardinality(AmbiguousAt)
           /\ \A k \in 1..Len(matched.err.cands) :
                  matched.err.cands[k] = ShownAs(NthOf(AmbiguousAt, k))

\* six substring matches with no exact match: five candidates were listed
C2_Witness ==
    /\ matched.done
    /\ Strip(query) # <<>>
    /\ Cardinality(ExactAt) = 0
    /\ Cardinality(PartialAt) >= 6
    /\ matched.err.kind = "ambiguous"
    /\ Len(matched.err.cands) = 5

(***************************************************************************)
(* Properties of the gateway                                               *)
(***************************************************************************)
\* the remote answered with a success status and a body that parsed as JSON
PlainSuccess ==
    /\ resp.transport = "ok"
    /\ resp.status < 400
    /\ ~resp.emptyBody
    /\ resp.parse = "json"

\* the remote answered with a success status and an empty body
EmptySuccess ==
    /\ resp.transport = "ok"
    /\ resp.status < 400
    /\ resp.emptyBody

\* the items of the remote answer that the call made is to list
ListedItems ==
    IF outcome.call = "search_cards"
    THEN IF PlainSuccess /\ resp.json.cards = "list" THEN resp.json.cardElems
         ELSE <<>>
    ELSE IF PlainSuccess THEN resp.json.elems ELSE <<>>

\* the positions of the listed items that are not closed
OpenAt == { i \in 1..Len(ListedItems) : ListedItems[i].closed # "true" }

\* C6: the list-returning calls get_boards, get_lists, get_list_cards and
\* search_cards return no item with closed=true and every non-closed item of
\* the response in the original order; get_board, get_list and get_card
\* return the object unfiltered, also when it is closed.
C6_ListCallsDropClosed ==
    /\ (outcome.kind = "return"
        /\ outcome.call \in {"get_boards", "get_lists", "get_list_cards",
                             "search_cards"})
        => /\ \A k \in 1..Len(outcome.list) : outcome.list[k].closed # "true"
           /\ Len(outcome.list) = Cardinality(OpenAt)
           /\ \A k \in 1..Len(outcome.list) :
                  outcome.list[k] = ListedItems[NthOf(OpenAt, k)]
    /\ (outcome.call \in {"get_board", "get_list", "get_card"}
        /\ PlainSuccess /\ resp.json.t = "dict")
        => outcome.kind = "return" /\ outcome.data = resp.json

\* get_boards answered with a closed item between two open ones: two returned
C6_Witness ==
    /\ outcome.call = "get_boards"
    /\ outcome.kind = "return"
    /\ Len(ListedItems) = 3
    /\ ListedItems[2].closed = "true"
    /\ OpenAt = {1, 3}
    /\ Len(outcome.list) = 2

\* C7: in _request every transport failure surfaces as an ApiError with
\* "Network error", 401 and 403 as AuthError, every other status >= 400 as
\* ApiError with the status and at most the first 300 characters of the body,
\* and no outcome escapes as any other fault.
C7_FailureClassification ==
    (outcome.kind # "idle" /\ outcome.call \in SingleCalls)
        => /\ resp.transport # "ok"
                => outcome.kind = "ApiError" /\ outcome.tag = "network"
           /\ (resp.transport = "ok" /\ resp.status \in {401, 403})
                => outcome.kind = "AuthError" /\ outcome.tag = "auth"
           /\ (resp.transport = "ok" /\ resp.status >= 400
               /\ resp.status \notin {401, 403})
                => /\ outcome.kind = "ApiError"
                   /\ outcome.tag = "http"
                   /\ outcome.status = resp.status
                   /\ Len(outcome.body) <= 300
                   /\ Len(outcome.body) <= Len(resp.body)
                   /\ Len(outcome.body) = 300 \/ Len(outcome.body) = Len(resp.body)
                   /\ \A i \in 1..Len(outcome.body) : outcome.body[i] = resp.body[i]
           /\ outcome.kind \in {"return", "ApiError", "AuthError"}

\* the answer's list is not list-shaped or holds an element that is no object
BadListShape ==
    IF outcome.call = "search_cards"
    THEN /\ resp.json.t = "dict"
         /\ resp.json.cards # "absent"
         /\ \/ resp.json.cards # "list"
            \/ \E i \in 1..Len(resp.json.cardElems) : ~resp.json.cardElems[i].isObj
    ELSE \/ resp.json.t # "list"
         \/ \E i \in 1..Len(resp.json.elems) : ~resp.json.elems[i].isObj

\* C8: every list-returning call (get_boards, get_lists, get_list_cards,
\* get_card_checklists, the cards field of search_cards) fails with an ApiError
\* and returns nothing when the successful response is not list-shaped or an
\* element of the list is not an object.
C8_ListShapeRejected ==
    (outcome.kind # "idle" /\ outcome.call \in ListCalls
     /\ PlainSuccess /\ BadListShape)
        => /\ outcome.kind = "ApiError"
           /\ outcome.tag \in {"shape", "item_shape"}
           /\ outcome.list = <<>>

\* get_card_checklists answered with a list whose last element is no object
C8_Witness ==
    /\ outcome.call = "get_card_checklists"
    /\ PlainSuccess
    /\ resp.json.t = "list"
    /\ Len(resp.json.elems) = 2
    /\ resp.json.elems[1].isObj
    /\ ~resp.json.elems[2].isObj
    /\ outcome.kind = "ApiError"

\* C9: every call whose response is expected to be a single object fails with
\* a shape ApiError when the successful response is not object-shaped, so no
\* caller receives a non-object from such a call.
C9_SingleObjectShapeRejected ==
    /\ (outcome.kind # "idle" /\ outcome.call \in SingleCalls
        /\ PlainSuccess /\ resp.json.t # "dict")
        => outcome.kind = "ApiError"
    /\ (outcome.call \in SingleCalls /\ outcome.kind = "return")
        => outcome.data.t = "dict"

\* C10 as stated: for every call a successful response with an empty body is
\* treated as an empty object and the call completes without raising.
C10_EmptyBodyNeverFails ==
    (outcome.kind # "idle" /\ EmptySuccess)
        => /\ outcome.kind = "return"
           /\ outcome.call \in SingleCalls => outcome.data = JEmpty

\* C10 as amended: _request treats a successful empty body as an empty object;
\* the calls that return what _request returns complete with that empty
\* object and search_cards completes with an empty list, while get_boards,
\* get_lists, get_list_cards and get_card_checklists reject the empty object
\* with the shape ApiError.
C10_EmptyBody ==
    (outcome.kind # "idle" /\ EmptySuccess)
        => /\ outcome.call \in SingleCalls
                => outcome.kind = "return" /\ outcome.data = JEmpty
           /\ outcome.call = "search_cards"
                => outcome.kind = "return" /\ outcome.list = <<>>
           /\ outcome.call \in {"get_boards", "get_lists", "get_list_cards",
                                "get_card_checklists"}
                => outcome.kind = "ApiError" /\ outcome.tag = "shape"

\* get_lists answered with an empty body: the shape error
C10_Witness ==
    /\ outcome.call = "get_lists"
    /\ EmptySuccess
    /\ resp.parse = "decode_error"
    /\ outcome.kind = "ApiError"
    /\ outcome.tag = "shape"

(***************************************************************************)
(* Properties of the resolvers                                             *)
(***************************************************************************)
\* s has the lexical shape of a remote ID: IdLen hexadecimal characters
IdShaped(s) == Len(s) = IdLen /\ \A i \in 1..Len(s) : IsHexChar(s[i])

\* a resolver was called with an ID-shaped reference
IdShapedResolution == last.op = "resolve" /\ IdShaped(last.ref)

\* the resolver issued a listing or search call
IssuedListingCall == \E i \in 1..Len(last.res.calls) : last.res.calls[i].call \in ListCalls

\* the checklist resolver was given a card context: a card reference or a
\* parent of the resource type card
HasCardContext ==
    \/ last.parentResource # "" /\ NormalizeResource(last.parentResource) = "card"
    \/ last.cardRef # <<>>

\* C3 as stated: for every ID-shaped reference and every resource type (board,
\* list, card, checklist, checklist item) the resolver returns that same
\* string as the resolved ID and issues no gateway listing call, whatever the
\* session and whatever parent or card context is supplied.
C3_IdShapedEveryResource ==
    IdShapedResolution =>
        /\ Resolved(last.res)
        /\ last.res.id = last.ref
        /\ ~IssuedListingCall

\* C3, amended: an ID-shaped reference to a board, a list or a card (with or
\* without an explicit parent), and one to a checklist given without a card
\* context, is returned unchanged as the resolved ID, with no object and with
\* no gateway call at all, whatever the session.  A checklist given with a
\* card context and a checklist item are looked up in the owning card's
\* checklists and in the owning checklist: the resolver may issue gateway
\* calls and may fail, and whenever it does return an ID, that ID is the
\* reference unchanged.
C3_IdShapedUnchanged ==
    IdShapedResolution =>
        /\ (\/ last.resource \in {"board", "list", "card"}
            \/ last.resource = "checklist" /\ ~HasCardContext)
              => /\ Resolved(last.res)
                 /\ last.res.id = last.ref
                 /\ ~last.res.hasObj
                 /\ last.res.calls = <<>>
        /\ Resolved(last.res) => last.res.id = last.ref

\* an ID-shaped card reference given with a board parent named by its name,
\* in a session with a list selected, came back unchanged
C3_Witness ==
    /\ IdShapedResolution
    /\ last.resource = "card"
    /\ NormalizeResource(last.parentResource) = "board"
    /\ last.parentRef # <<>>
    /\ ~IdShaped(last.parentRef)
    /\ last.before.list_id # <<>>
    /\ last.res.id = last.ref
    /\ last.res.calls = <<>>

\* C4: a reference is taken as an already resolved ID if and only if, trimmed,
\* it is exactly 24 hexadecimal characters; every other non-empty reference is
\* taken as a name; the same in every resolver and on every path, card
\* resolution with an explicit list or board parent included.
C4_IdClassification ==
    (/\ last.op = "resolve"
     /\ Strip(last.ref) # <<>>
     /\ last.res.how # "none")
        => (last.res.how = "id" <=> IdShaped(Strip(last.ref)))

\* _resolve_card_ref was called: a card reference without an explicit list or
\* board parent
PlainCardResolution ==
    /\ last.op = "resolve" /\ last.resource = "card"
    /\ \/ NormalizeResource(last.parentResource) \notin {"list", "board"}
       \/ Strip(last.parentRef) = <<>>

\* what the resolver of the resource of the last call gives for the session's
\* own value of that resource, in the session and with the answers of that call
ResolvedFromSession ==
    CASE last.resource = "board" ->
            ResolveBoardRef(last.before, last.before.board_id, <<>>, last.orc)
      [] last.resource = "list" ->
            ResolveListRef(last.before, last.before.list_id, <<>>, last.orc)
      [] OTHER -> ResolveCardRef(last.before, last.before.card_id, <<>>, last.orc)

\* the session's own value of the resource of the last call
SessionValue ==
    CASE last.resource = "board" -> last.before.board_id
      [] last.resource = "list" -> last.before.list_id
      [] OTHER -> last.before.card_id

\* _resolve_board_ref, _resolve_list_ref or _resolve_card_ref was called with a
\* reference that is empty or blank
EmptyRefResolution ==
    /\ last.op = "resolve"
    /\ last.resource \in {"board", "list"} \/ PlainCardResolution
    /\ Strip(last.ref) = <<>>

\* C16: the board, list and card resolvers given an empty or blank reference
\* behave exactly as if the session's value of that resource had been given;
\* when that value is empty too they return an error, issue no gateway call
\* and change no session field.
C16_EmptyRefIsSessionValue ==
    EmptyRefResolution =>
        /\ session = last.before
        /\ SessionValue # <<>> => last.res = ResolvedFromSession
        /\ SessionValue = <<>> =>
              /\ last.res.err.kind \in {"no_board_selected", "no_list_selected",
                                        "card_usage"}
              /\ last.res.exc.kind = "none"
              /\ last.res.id = <<>>
              /\ last.res.calls = <<>>

\* a blank board reference resolved to the board of the session
C16_Witness ==
    /\ EmptyRefResolution
    /\ last.resource = "board"
    /\ last.ref # <<>>
    /\ last.before.board_id # <<>>
    /\ last.res.id = last.before.board_id
    /\ Resolved(last.res)

\* _resolve_card_ref looked a name up: the reference, or the session's card
\* in its place, is not ID-shaped
CardByName == PlainCardResolution /\ last.res.how = "name"

\* the resolver called search_cards
SearchedBoard ==
    \E i \in 1..Len(last.res.calls) : last.res.calls[i].call = "search_cards"

\* the session's list was listed and the name matched none or several of its
\* cards
ListMatchFailed ==
    /\ CardByName
    /\ last.before.list_id # <<>>
    /\ Len(last.res.calls) >= 1
    /\ last.res.calls[1].call = "get_list_cards"
    /\ \/ Len(last.res.calls) >= 2
       \/ last.res.exc.kind = "none" /\ last.res.err.kind # "none"

MatcherErrors == {"empty", "ambiguous", "notfound"}

\* a resolver returned an error after every gateway call it issued had
\* returned: name matching failed in a candidate set that was listed
FailedAfterListing ==
    /\ last.op = "resolve"
    /\ last.res.exc.kind = "none"
    /\ last.res.err.kind # "none"
    /\ last.res.calls # <<>>

\* C19: whenever name matching fails while a board, list, card, checklist or
\* checklist item reference is resolved, the error the resolver returns is
\* the matcher's own error (empty, ambiguous, not found) for the candidate set
\* that was searched, unchanged; an ambiguity among the cards of the session's
\* list is reported as that ambiguity, also when no board is selected.
C19_MatcherErrorVerbatim ==
    FailedAfterListing => last.res.err.kind \in MatcherErrors

(***************************************************************************)
(* Properties of the selection handlers                                    *)
(***************************************************************************)
\* a board, a list, a card was selected with success
BoardChosen ==
    /\ last.op = "use_board" \/ (last.op = "select" /\ last.resource = "board")
    /\ last.msg = "selected"
ListChosen ==
    /\ last.op = "use_list" \/ (last.op = "select" /\ last.resource = "list")
    /\ last.msg = "selected"
CardChosen == last.op = "select" /\ last.resource = "card" /\ last.msg = "selected"

\* the card object get_card returned
FetchedCard == last.fetched.data.obj

\* the selection of a board or a list left the session as C5 says
BoardOrListSessionRule ==
    /\ BoardChosen =>
          /\ session.card_id = <<>>
          /\ session.board_id = last.res.id
          /\ session.list_id = last.before.list_id
    /\ ListChosen =>
          /\ session.card_id = <<>>
          /\ session.list_id = last.res.id
          /\ session.board_id = last.before.board_id

\* C5 as stated: after a successful board selection (use-board, trello_select
\* board) the session card_id is empty and board_id is the resolved board;
\* after a successful list selection (use-list, trello_select list) the
\* session card_id is empty and list_id is the resolved list; after a
\* successful card selection (trello_select card) the session board_id,
\* list_id and card_id equal the idBoard, idList and id of the fetched card.
C5_SessionAfterSelectionEveryField ==
    /\ BoardOrListSessionRule
    /\ CardChosen =>
          /\ session.board_id = FetchedCard.idBoard
          /\ session.list_id = FetchedCard.idList
          /\ session.card_id = FetchedCard.id

\* C5, amended: the board and list parts as stated (the other of board_id and
\* list_id stays as it was); after a successful card selection each of the
\* session's board_id, list_id and card_id equals the idBoard, idList and id
\* of the fetched card object where that field is present and not empty, and
\* is what it was before the selection where the field is missing or empty.
C5_SessionAfterSelection ==
    /\ BoardOrListSessionRule
    /\ CardChosen =>
          /\ last.fetched.kind = "return"
          /\ session.board_id = IF FetchedCard.idBoard # <<>> THEN FetchedCard.idBoard
                                ELSE last.before.board_id
          /\ session.list_id = IF FetchedCard.idList # <<>> THEN FetchedCard.idList
                               ELSE last.before.list_id
          /\ session.card_id = IF FetchedCard.id # <<>> THEN FetchedCard.id
                               ELSE last.before.card_id
          /\ session.done_list_id = last.before.done_list_id

\* a card fetched without its fields (an empty body) was selected in a session
\* that had a board, a list and a card selected, and the session kept them
C5_Witness ==
    /\ CardChosen
    /\ FetchedCard.idBoard = <<>> /\ FetchedCard.id = <<>>
    /\ last.before.board_id # <<>> /\ last.before.card_id # <<>>
    /\ session = last.before

(***************************************************************************)
(* Properties of the client's HTTP session                                 *)
(***************************************************************************)
\* the last call made on the client
LastCall == IF http.log = <<>> THEN "none" ELSE http.log[Len(http.log)]

\* before the last call, self._session referred to a session that was open
HeldOpenBefore == http.before.cur # 0 /\ http.before.sessions[http.before.cur] = "open"

\* C17: close() closes the client's HTTP session whenever one exists and is
\* open (one put into the client included); close() on a client with no
\* session or with a closed one changes nothing; a request made after close()
\* opens a fresh session and does not go through the closed one; the client
\* holds at most one open session at any time.
C17_SessionLifecycle ==
    /\ Cardinality({ i \in 1..Len(http.sessions) : http.sessions[i] = "open" }) <= 1
    /\ \A i \in 1..Len(http.sessions) : http.sessions[i] = "open" => i = http.cur
    /\ LastCall = "close" =>
          /\ http.cur = http.before.cur
          /\ ~HoldsOpen(http)
          /\ HeldOpenBefore =>
                http.sessions = [http.before.sessions EXCEPT ![http.cur] = "closed"]
          /\ ~HeldOpenBefore => http.sessions = http.before.sessions
    /\ LastCall = "request" =>
          /\ http.used = http.cur
          /\ HoldsOpen(http)
          /\ HeldOpenBefore =>
                /\ http.cur = http.before.cur
                /\ http.sessions = http.before.sessions
          /\ ~HeldOpenBefore =>
                /\ http.cur = Len(http.before.sessions) + 1
                /\ http.sessions = Append(http.before.sessions, "open")

\* a session put into the client was closed by close(), and the request after
\* it went through a fresh session
C17_Witness ==
    /\ Len(http.log) >= 2
    /\ http.log[1] = "close" /\ http.log[2] = "request"
    /\ http.sessions = <<"closed", "open">>
    /\ http.used = 2


(***************************************************************************)
(* Properties of the read and write tools and of the commands             *)
(***************************************************************************)
\* a tool or a command was invoked
Invoked == last.op \in {"read", "write", "board_info", "card"}

\* the write tool was asked to delete without confirm
UnconfirmedDelete ==
    last.op = "write" /\ last.opts.mode = "delete" /\ ~last.opts.confirm

\* the reference of the invocation is a name: neither empty nor ID-shaped
NamedTarget == Strip(last.ref) # <<>> /\ ~IdShaped(Strip(last.ref))

\* C11: a delete of the write tool without confirm=true is rejected for every
\* resource before any gateway call, the calls of a name resolution
\* included, and leaves the session unchanged
C11_DeleteNeedsConfirm ==
    UnconfirmedDelete =>
        /\ last.msg \in {"confirm_required", "no_credentials"}
        /\ last.res.calls = <<>>
        /\ session = last.before

\* a delete of a card given by name, without confirm, with a list selected in
\* which the name would have been looked up
C11_Witness ==
    /\ UnconfirmedDelete
    /\ last.resource = "card"
    /\ NamedTarget
    /\ last.before.list_id # <<>>
    /\ last.msg = "confirm_required"

\* C12: the write tool validates the fields of every (resource, action)
\* before any gateway call: where it returns for a missing field it has
\* issued no gateway call, the listing calls of a name resolution included
C12_FieldsValidatedBeforeCalls ==
    (last.op = "write" /\ last.msg = "missing_field") => last.res.calls = <<>>

\* C13: the read tool and the write tool with switch_context=false leave the
\* session unchanged, for every resource, mode or action, and outcome
C13_NoSwitchNoSessionChange ==
    (last.op \in {"read", "write"} /\ ~last.opts.switch_context) =>
        session = last.before

\* a card created by the write tool with switch_context=false in a session
\* that had no card and another list selected
C13_Witness ==
    /\ last.op = "write"
    /\ ~last.opts.switch_context
    /\ last.resource = "card"
    /\ last.opts.mode = "create"
    /\ last.msg = "ok"
    /\ last.before.card_id = <<>>
    /\ last.parentRef = IdL2
    /\ last.before.list_id = IdL1

\* C14: an invocation in which a gateway call fails, or that ends with an
\* error message or a fault, leaves the session unchanged
C14_SessionWrittenOnlyOnSuccess ==
    (Invoked /\ last.msg # "ok") => session = last.before

\* a gateway call of the invocation was answered with the status 401
AuthFailure ==
    /\ last.orc.at \in 1..Len(last.res.calls)
    /\ last.orc.ans.transport = "ok"
    /\ last.orc.ans.status = StatusUnauthorized

\* C15: every tool and command turns every failure into a message, never a
\* fault that leaves the handler, and an authentication failure into the
\* authentication message
C15_NoUnhandledFault ==
    Invoked => /\ last.msg # "fault"
               /\ AuthFailure => last.msg = "auth_failed"

\* a list was to be found by name by the read tool or the write tool
ListByName ==
    /\ last.op \in {"read", "write"}
    /\ last.resource = "list"
    /\ last.opts.mode \in {"get", "update", "delete"}
    /\ NamedTarget
    /\ last.msg \notin {"no_credentials", "fault", "confirm_required"}

\* the invocation names a parent board
ExplicitBoard ==
    NormalizeResource(last.parentResource) = "board" /\ Strip(last.parentRef) # <<>>

\* every listing of lists of the invocation was of the lists of the board
ListsOf(board) ==
    \A i \in 1..Len(last.res.calls) :
        last.res.calls[i].call = "get_lists" => last.res.calls[i].arg = board

\* C20: a list is looked up by name among the lists of the board given as
\* explicit parent when there is one, of the session's board otherwise, and
\* the lookup fails for want of a board only when there is neither
C20_ListNameUsesExplicitBoard ==
    ListByName =>
        IF ExplicitBoard
        THEN /\ last.res.err.kind # "list_needs_board"
             /\ IdShaped(Strip(last.parentRef)) => ListsOf(Strip(last.parentRef))
        ELSE /\ last.res.err.kind = "list_needs_board" <=> last.before.board_id = <<>>
             /\ ListsOf(last.before.board_id)

(***************************************************************************)
(* Properties of checklist resolution and of parent-scoped card resolution *)
(***************************************************************************)
\* _resolve_checklist_ref was called with a name and with neither a card
\* reference nor a parent
ChecklistByNameNoContext ==
    /\ last.op = "resolve" /\ last.resource = "checklist"
    /\ Strip(last.ref) # <<>>
    /\ ~IdShaped(Strip(last.ref))
    /\ last.cardRef = <<>>
    /\ last.parentResource = ""

\* the checklists of the card cardId were listed, as the last call
ListedChecklistsOf(cardId) ==
    /\ last.res.calls # <<>>
    /\ last.res.calls[Len(last.res.calls)] = CallRec("get_card_checklists", cardId)

\* C21: checklist resolution by name takes the owning card from an explicit
\* card or parent reference when one is given and from the session's current
\* card otherwise: with a card selected in the session and no card or parent
\* argument, the checklist is looked up among that card's checklists and the
\* resolution does not fail for lack of a card context.
C21_SessionCardIsChecklistContext ==
    (ChecklistByNameNoContext /\ last.before.card_id # <<>>) =>
        /\ last.res.err.kind # "checklist_needs_card"
        /\ ListedChecklistsOf(last.before.card_id)

\* _resolve_card_with_optional_parent was called with a card name (or no card
\* reference) and with an explicit list or board parent
ParentScopedByName ==
    /\ last.op = "resolve" /\ last.resource = "card"
    /\ NormalizeResource(last.parentResource) \in {"list", "board"}
    /\ Strip(last.parentRef) # <<>>
    /\ ~IdShaped(Strip(last.ref))

\* what the resolver of the explicit parent of the last call gives, in the
\* session and with the answers of that call
ParentOfLast ==
    IF NormalizeResource(last.parentResource) = "list"
    THEN ResolveListRef(last.before, last.parentRef, <<>>, last.orc)
    ELSE ResolveBoardRef(last.before, last.parentRef, <<>>, last.orc)

\* the call that lists the cards of the explicit parent pr
ParentListing(pr) ==
    CallRec(IF NormalizeResource(last.parentResource) = "list"
            THEN "get_list_cards" ELSE "search_cards", pr.id)

\* the positions of the gateway calls of the last resolution that list cards
CardListings ==
    { i \in 1..Len(last.res.calls) :
        last.res.calls[i].call \in {"get_list_cards", "search_cards"} }

\* the card c belongs to the explicit parent pr
InParent(c, pr) ==
    IF NormalizeResource(last.parentResource) = "list" THEN c.idList = pr.id
    ELSE c.idBoard = pr.id

\* C22: card resolution by name with an explicit list or board parent takes
\* its candidates from that parent only: once the parent is resolved, exactly
\* one card-listing call is issued, on that parent (get_list_cards of the list,
\* search_cards on the board with the name as keyword), it is the last call,
\* the card returned is one of that parent, and when there is no unique match
\* the matcher's error is returned as it is, without any call on the session's
\* list or board; when the parent cannot be resolved no card is listed at all.
C22_ExplicitParentOnly ==
    ParentScopedByName =>
        \A pr \in { ParentOfLast } :
            IF Resolved(pr)
            THEN /\ last.res.calls = Append(pr.calls, ParentListing(pr))
                 /\ Cardinality(CardListings) = 1
                 /\ Resolved(last.res) =>
                       /\ last.res.hasObj
                       /\ last.res.id = last.res.obj.id
                       /\ InParent(last.res.obj, pr)
                 /\ (~Resolved(last.res) /\ last.res.exc.kind = "none") =>
                       last.res.err.kind \in MatcherErrors
            ELSE /\ ~Resolved(last.res)
                 /\ last.res.calls = pr.calls
                 /\ CardListings = {}

\* a card name that is on the session's list and board, but not in the list
\* given as parent, was not found: the parent's cards were listed and nothing
\* else
C22_Witness ==
    /\ ParentScopedByName
    /\ last.parentRef = IdL2
    /\ last.before.list_id = IdL1
    /\ last.before.board_id = IdB1
    /\ last.ref = <<"f","i","x">>
    /\ last.res.calls = <<CallRec("get_list_cards", IdL2)>>
    /\ last.res.err.kind = "notfound"
    /\ last.orc = NoOdd

(***************************************************************************)
(* Properties of the session writes                                        *)
(***************************************************************************)
\* _sync_context_from_card was called on a card object
Synchronised == last.op = "sync"

\* the value of a session field after the synchronisation: the card's value
\* if it is not empty, the previous value otherwise
SyncedField(fromCard, previous) == IF fromCard # <<>> THEN fromCard ELSE previous

\* C23: _sync_context_from_card sets each of the session's board_id, list_id
\* and card_id to the card's idBoard, idList and id when that value is not
\* empty and leaves it as it was when the value is empty or missing; it never
\* changes done_list_id.
C23_SyncWritesNonEmptyFields ==
    Synchronised =>
        /\ session.board_id = SyncedField(FetchedCard.idBoard, last.before.board_id)
        /\ session.list_id = SyncedField(FetchedCard.idList, last.before.list_id)
        /\ session.card_id = SyncedField(FetchedCard.id, last.before.card_id)
        /\ session.done_list_id = last.before.done_list_id

\* a card object with a board and without id and list was synchronised into
\* a session with every field set: the board changed, the list, the card and
\* the done list stayed
C23_Witness ==
    /\ Synchronised
    /\ FetchedCard.idBoard = IdB2
    /\ FetchedCard.id = <<>> /\ FetchedCard.idList = <<>>
    /\ last.before = [Session(IdB1, IdL1, IdC1) EXCEPT !.done_list_id = IdL2]
    /\ session = [last.before EXCEPT !.board_id = IdB2]

\* trello_select answered that the checklist is selected
ChecklistChosen ==
    /\ last.op = "select"
    /\ NormalizeResource(last.resource) = "checklist"
    /\ last.msg = "selected"

\* the last gateway call of the invocation was get_card, and it returned
CardWasFetched ==
    /\ last.res.calls # <<>>
    /\ last.res.calls[Len(last.res.calls)].call = "get_card"
    /\ last.fetched.kind = "return"

\* C24: every successful trello_select of a checklist fetches the owning card
\* of the checklist and synchronises the session's board_id, list_id and
\* card_id from it, also when the checklist is given as a bare ID with no
\* card and no parent.
C24_ChecklistSelectionSyncsCard ==
    ChecklistChosen =>
        /\ CardWasFetched
        /\ session = SyncContextFromCard(last.before, FetchedCard)

\* C25: a successful selection of a board (use-board, trello_select board)
\* changes board_id and card_id only: list_id and done_list_id stay as they
\* were; a successful selection of a list (use-list, trello_select list)
\* changes list_id and card_id only: board_id and done_list_id stay as they
\* were.  The session's list need not be a list of the session's board.
C25_SelectionFrame ==
    /\ BoardChosen =>
          session = [last.before EXCEPT !.board_id = last.res.id, !.card_id = <<>>]
    /\ ListChosen =>
          session = [last.before EXCEPT !.list_id = last.res.id, !.card_id = <<>>]

\* another board was selected by its ID in a session with a board, a list of
\* that board, a card and a done list: the list and the done list stayed, and
\* the session's list is no list of the session's board
C25_Witness ==
    /\ BoardChosen
    /\ last.before = [Session(IdB1, IdL1, IdC1) EXCEPT !.done_list_id = IdL2]
    /\ session.board_id = IdX
    /\ session.list_id = IdL1
    /\ session.done_list_id = IdL2
    /\ session.card_id = <<>>

(***************************************************************************)
(* Properties of failing gateway calls                                     *)
(***************************************************************************)
\* what the client call in which the odd answer was placed returned or raised
OddOutcome == ClientCall(last.res.calls[last.orc.at].call, last.orc.ans)

\* a gateway call of the last resolution failed: the client raised
\* TrelloAuthError or TrelloApiError (HTTP status, transport, shape)
GatewayCallFailed ==
    /\ last.op = "resolve"
    /\ last.orc.at \in 1..Len(last.res.calls)
    /\ OddOutcome.kind \in {"AuthError", "ApiError"}

\* C26: no gateway call is retried and a failure ends the chain: once a call
\* of a resolution has failed (authentication, API or transport error), it is
\* the last call the resolution issues, and the resolution fails with that
\* error; a failing get_list_cards in card resolution is not followed by the
\* search of the board.
C26_FailureEndsChain ==
    GatewayCallFailed =>
        /\ Len(last.res.calls) = last.orc.at
        /\ last.res.exc = OddOutcome
        /\ ~Resolved(last.res)
        /\ \A i \in 1..Len(last.res.calls) : \A j \in 1..Len(last.res.calls) :
              last.res.calls[i] = last.res.calls[j] => i = j

\* get_list_cards on the session's list failed with a transport error while a
\* card was resolved by name with a board selected too: no search_cards
C26_Witness ==
    /\ GatewayCallFailed
    /\ last.resource = "card"
    /\ last.parentResource = ""
    /\ last.before.list_id # <<>> /\ last.before.board_id # <<>>
    /\ last.orc.at = 1
    /\ last.orc.ans.transport = "timeout"
    /\ last.res.calls = <<CallRec("get_list_cards", last.before.list_id)>>
    /\ last.res.exc.kind = "ApiError"

(***************************************************************************)
(* Properties of two handlers in flight                                    *)
(***************************************************************************)
\* two handlers were dispatched together
Racing == last.op = "race"

\* both have returned
BothFinished == Racing /\ Finished(running[1]) /\ Finished(running[2])

\* what is left when the second runs after the first has returned, and when
\* the first runs after the second has returned
FirstThenSecond ==
    AllWritten(AllWritten(last.before, running[1].puts), running[2].puts)
SecondThenFirst ==
    AllWritten(AllWritten(last.before, running[2].puts), running[1].puts)

\* C27: two commands dispatched together on one conversation are not
\* serialised: a handler that has not returned can take its next step
\* whatever position the other handler is in, between two of its session
\* writes included, so that the writes of the two interleave; an interleaving
\* can leave a session that neither serial order leaves (see C27_Witness).
C27_NotSerialised ==
    Racing => \A p \in 1..2 : ~Finished(running[p]) => ENABLED HandlerStep(p)

\* a card selection and the selection of another board have both returned,
\* and the session is that of neither serial order: the card is selected
\* under the other board
C27_Witness ==
    /\ BothFinished
    /\ running[1].name = "select_card"
    /\ running[2].name = "select_board"
    /\ session # FirstThenSecond
    /\ session # SecondThenFirst
    /\ session.card_id = IdC1
    /\ session.board_id = IdB2

(***************************************************************************)
(* Further properties of the name matcher                                  *)
(***************************************************************************)
\* what the matcher returned is as C28 says
MatcherResultRule ==
    matched.done =>
        /\ Strip(query) = <<>> =>
              /\ ~matched.found
              /\ matched.err.kind = "empty"
        /\ (Strip(query) # <<>> /\ ExactAt = {} /\ Cardinality(PartialAt) = 1) =>
              /\ matched.found
              /\ \A i \in PartialAt : matched.item = items[i]
        /\ (Strip(query) # <<>> /\ PartialAt = {}) =>
              /\ ~matched.found
              /\ matched.err.kind = "notfound"
              /\ matched.err.q = Strip(query)
        /\ matched.found <=> matched.err.kind = "none"
        /\ ~matched.found => matched.item = NoItem

\* C28: a query that is empty after trimming fails with the empty-query
\* error whatever the items; for any other query with no exact match, exactly
\* one substring match is returned and no substring match fails with the
\* not-found error; the matcher returns exactly one of an item and an error;
\* and it never changes the item sequence (nor the query).
C28_MatcherContract ==
    /\ []MatcherResultRule
    /\ [][items' = items /\ query' = query]_vars

\* the only item that contains the query, which no name equals, was returned
\* from among three items or more, and it is not the first
C28_Witness ==
    /\ matched.done
    /\ Strip(query) # <<>>
    /\ ExactAt = {}
    /\ Cardinality(PartialAt) = 1
    /\ Len(items) >= 3
    /\ \E i \in PartialAt : i > 1 /\ matched.item = items[i]
    /\ matched.err.kind = "none"

(***************************************************************************)
(* Properties of the card paired with a checklist                          *)
(***************************************************************************)
\* _resolve_checklist_ref returned a checklist ID together with a card ID
ChecklistPairedWithCard ==
    /\ last.op = "resolve" /\ last.resource = "checklist"
    /\ Resolved(last.res)
    /\ last.res.id # <<>>
    /\ last.res.cardId # <<>>

\* the checklist id is one of the checklists of the card cardId
OwnedBy(id, cardId) ==
    \E i \in 1..Len(WorldChecklists) :
        WorldChecklists[i].id = id /\ WorldChecklists[i].idCard = cardId

\* C29: whenever checklist resolution returns a card ID that is not empty
\* together with the checklist ID, the checklist is one of that card's
\* checklists; an ID-shaped reference that is not among the checklists of the
\* card given is not returned paired with that card.
C29_PairedCardOwnsChecklist ==
    ChecklistPairedWithCard => OwnedBy(last.res.id, last.res.cardId)

(***************************************************************************)
(* Properties of the mutations of the write tool                           *)
(***************************************************************************)
\* the client methods that create, update, archive or delete
MutatingCalls ==
    { WriteCall(rs, action) :
        rs \in {"board", "list", "card", "checklist", "checklist_item"},
        action \in {"create", "update", "delete"} }

\* the i-th gateway call of the last invocation returned
CallReturned(i) ==
    Gw(last.res.calls[i].call, last.res.calls[i].arg, <<>>,
       SubSeq(last.res.calls, 1, i - 1), last.orc).kind = "return"

\* the last invocation performed a remote mutation
MutationPerformed ==
    \E i \in 1..Len(last.res.calls) :
        last.res.calls[i].call \in MutatingCalls /\ CallReturned(i)

\* trello_write returned one of its error messages
WriteFailed ==
    /\ last.op = "write"
    /\ last.msg \in {"trello_error", "auth_failed", "input_error"}

\* C30: whenever trello_write returns an error message (Trello error,
\* authentication failure, input error) the invocation has performed no remote
\* mutation: every mutating gateway call that succeeds is followed by a
\* success message, also when switch_context=true makes the tool fetch the
\* card afterwards.
C30_ErrorMeansNoMutation == WriteFailed => ~MutationPerformed

====
